---- MODULE Spec2Model ----
(***************************************************************************)
(* Model of the validation engine documented by pedantigo-docs: the JSON   *)
(* decoder the engine relies on, the tag-driven field validation of        *)
(* Unmarshal / Validate, and the StreamParser (Feed / CurrentState /       *)
(* Reset).  Every definition is translated from the documentation pages    *)
(* under src/, which are the only description of the engine in this        *)
(* repository.                                                             *)
(***************************************************************************)
EXTENDS Integers, Sequences, FiniteSets, TLC

(***************************************************************************)
(* Bounds of the model.                                                    *)
(***************************************************************************)
MaxStrLen == 2
MaxNum == 3
MaxItems == 3
MaxFeeds == 3

(***************************************************************************)
(* JSON text: a sequence of one-character strings.                         *)
(***************************************************************************)
QUOTE == "\""
Digits == <<"0", "1", "2", "3", "4", "5", "6", "7", "8", "9">>
DigitSet == {Digits[i] : i \in 1..10}
DigitVal(ch) == (CHOOSE i \in 1..10 : Digits[i] = ch) - 1

\* Decoded JSON values (encoding/json's generic representation).
JStr(s) == [t |-> "str", s |-> s, n |-> 0, a |-> <<>>, o |-> <<>>]
JNum(n) == [t |-> "num", s |-> <<>>, n |-> n, a |-> <<>>, o |-> <<>>]
JNull == [t |-> "null", s |-> <<>>, n |-> 0, a |-> <<>>, o |-> <<>>]
JArr(a) == [t |-> "arr", s |-> <<>>, n |-> 0, a |-> a, o |-> <<>>]
JObj(o) == [t |-> "obj", s |-> <<>>, n |-> 0, a |-> <<>>, o |-> o]

\* Result of one parsing step: st is "ok", "inc" (input ended inside the
\* value) or "bad" (a character no JSON value allows here); i is the
\* position after the value.
PR(st, v, i) == [st |-> st, v |-> v, i |-> i]

\* Characters of a string up to the closing quote; b is the position of the
\* first character, the result is the position of the closing quote or 0.
RECURSIVE StringEnd(_, _)
StringEnd(b, i) ==
    IF i > Len(b) THEN 0
    ELSE IF b[i] = QUOTE THEN i
    ELSE StringEnd(b, i + 1)

ParseString(b, i) ==
    \* b[i] is the opening quote
    LET e == StringEnd(b, i + 1) IN
    IF e = 0 THEN PR("inc", JNull, Len(b) + 1)
    ELSE PR("ok", JStr(SubSeq(b, i + 1, e - 1)), e + 1)

RECURSIVE NumberEnd(_, _)
NumberEnd(b, i) ==
    IF i > Len(b) THEN i
    ELSE IF b[i] \in DigitSet THEN NumberEnd(b, i + 1)
    ELSE i

RECURSIVE DigitsVal(_)
DigitsVal(ds) ==
    IF ds = <<>> THEN 0
    ELSE 10 * DigitsVal(SubSeq(ds, 1, Len(ds) - 1)) + DigitVal(ds[Len(ds)])

ParseNumber(b, i) ==
    \* a number is complete only when a following character delimits it
    LET e == NumberEnd(b, i) IN
    IF e > Len(b) THEN PR("inc", JNull, e)
    ELSE PR("ok", JNum(DigitsVal(SubSeq(b, i, e - 1))), e)

NullLit == <<"n", "u", "l", "l">>

ParseNull(b, i) ==
    LET avail == IF Len(b) - i + 1 < 4 THEN Len(b) - i + 1 ELSE 4 IN
    IF SubSeq(b, i, i + avail - 1) # SubSeq(NullLit, 1, avail)
    THEN PR("bad", JNull, i)
    ELSE IF avail < 4 THEN PR("inc", JNull, Len(b) + 1)
    ELSE PR("ok", JNull, i + 4)

RECURSIVE ParseValue(_, _)
RECURSIVE ParseMembers(_, _, _)
RECURSIVE ParseElements(_, _, _)
RECURSIVE AfterKey(_, _, _)
RECURSIVE AfterMember(_, _, _, _)
RECURSIVE AfterElement(_, _, _)

\* The map m with key k bound to v (a repeated key keeps the last value).
Extend(m, k, v) == [x \in DOMAIN m \cup {k} |-> IF x = k THEN v ELSE m[x]]

\* Members of an object after "{" or ","; o is the map decoded so far (a
\* repeated key keeps the last value).
ParseMembers(b, i, o) ==
    IF i > Len(b) THEN PR("inc", JNull, i)
    ELSE IF b[i] # QUOTE THEN PR("bad", JNull, i)
    ELSE AfterKey(b, ParseString(b, i), o)

\* k is the parsed key: a colon and the member's value follow.
AfterKey(b, k, o) ==
    IF k.st # "ok" THEN k
    ELSE IF k.i > Len(b) THEN PR("inc", JNull, k.i)
    ELSE IF b[k.i] # ":" THEN PR("bad", JNull, k.i)
    ELSE AfterMember(b, k.v.s, ParseValue(b, k.i + 1), o)

\* v is the parsed value of member key: the object ends or goes on.
AfterMember(b, key, v, o) ==
    IF v.st # "ok" THEN v
    ELSE IF v.i > Len(b) THEN PR("inc", JNull, v.i)
    ELSE IF b[v.i] = "}" THEN PR("ok", JObj(Extend(o, key, v.v)), v.i + 1)
    ELSE IF b[v.i] = "," THEN ParseMembers(b, v.i + 1, Extend(o, key, v.v))
    ELSE PR("bad", JNull, v.i)

ParseElements(b, i, a) == AfterElement(b, ParseValue(b, i), a)

\* v is the parsed element: the array ends or goes on.
AfterElement(b, v, a) ==
    IF v.st # "ok" THEN v
    ELSE IF v.i > Len(b) THEN PR("inc", JNull, v.i)
    ELSE IF b[v.i] = "]" THEN PR("ok", JArr(Append(a, v.v)), v.i + 1)
    ELSE IF b[v.i] = "," THEN ParseElements(b, v.i + 1, Append(a, v.v))
    ELSE PR("bad", JNull, v.i)

ParseValue(b, i) ==
    IF i > Len(b) THEN PR("inc", JNull, i)
    ELSE IF b[i] = QUOTE THEN ParseString(b, i)
    ELSE IF b[i] \in DigitSet THEN ParseNumber(b, i)
    ELSE IF b[i] = "n" THEN ParseNull(b, i)
    ELSE IF b[i] = "{" THEN
      IF i + 1 > Len(b) THEN PR("inc", JNull, i + 1)
      ELSE IF b[i + 1] = "}" THEN PR("ok", JObj(<<>>), i + 2)
      ELSE ParseMembers(b, i + 1, <<>>)
    ELSE IF b[i] = "[" THEN
      IF i + 1 > Len(b) THEN PR("inc", JNull, i + 1)
      ELSE IF b[i + 1] = "]" THEN PR("ok", JArr(<<>>), i + 2)
      ELSE ParseElements(b, i + 1, <<>>)
    ELSE PR("bad", JNull, i)

\* What the parse r of the whole text b amounts to.
Decoded(b, r) ==
    IF r.st = "inc" THEN [status |-> "incomplete", v |-> JNull]
    ELSE IF r.st = "bad" THEN [status |-> "malformed", v |-> JNull]
    ELSE IF r.i <= Len(b) THEN [status |-> "malformed", v |-> JNull]
    ELSE [status |-> "complete", v |-> r.v]

\* json.Unmarshal of a whole buffer into the generic map: the top-level
\* value must be an object and nothing may follow it.  status is
\* "complete", "incomplete" (the text so far is a proper prefix of a JSON
\* document) or "malformed".
Decode(b) ==
    IF b = <<>> THEN [status |-> "incomplete", v |-> JNull]
    ELSE IF b[1] # "{" THEN [status |-> "malformed", v |-> JNull]
    ELSE Decoded(b, ParseValue(b, 1))

(***************************************************************************)
(* Constraint model and field descriptors.                                 *)
(***************************************************************************)
Constraint(kind, n, set) == [kind |-> kind, n |-> n, set |-> set]
Required == Constraint("required", 0, {})
Min(n) == Constraint("min", n, {})
Max(n) == Constraint("max", n, {})
LenIs(n) == Constraint("len", n, {})
Email == Constraint("email", 0, {})
OneOf(set) == Constraint("oneof", 0, set)
\* unique=FieldName: the parameter is the JSON key of the named field.
UniqueBy(key) == Constraint("unique", 0, {key})

NoDefault == [has |-> FALSE, v |-> JNull, factory |-> FALSE]
Default(v) == [has |-> TRUE, v |-> v, factory |-> FALSE]
\* defaultFactory=fn, with v the value fn returns.
DefaultFactory(v) == [has |-> TRUE, v |-> v, factory |-> TRUE]

\* name: the Go field name used in error paths; key: the JSON key; shape:
\* "string", "int", "struct", "slice" (of strings) or "structs" (a slice of
\* structs); cons: the constraints before dive; elemCons: the constraints
\* after dive; nested: the struct type of a "struct" or "structs" field.
FD(name, key, shape, cons, elemCons, nested, def) ==
    [name |-> name, key |-> key, shape |-> shape, cons |-> cons,
     elemCons |-> elemCons, nested |-> nested, def |-> def]

\* The struct types of the model, after the documentation's examples with
\* parameters scaled to the model's value sets.
MessageFields ==
    << FD("role", <<"r">>, "string",
          <<Required, OneOf({<<"u">>, <<"a">>})>>, <<>>, "", NoDefault),
       FD("content", <<"c">>, "string",
          <<Required, Min(2)>>, <<>>, "", NoDefault) >>

AccountFields ==
    << FD("email", <<"e">>, "string",
          <<Required, Email, Min(2)>>, <<>>, "", NoDefault),
       FD("age", <<"g">>, "int",
          <<Required, Min(2), Max(2)>>, <<>>, "", NoDefault) >>

PersonFields ==
    << FD("first_name", <<"f">>, "string", <<Required>>, <<>>, "", NoDefault),
       FD("last_name", <<"l">>, "string", <<Required>>, <<>>, "", NoDefault) >>

AddressFields ==
    << FD("city", <<"y">>, "string", <<Required, Min(2)>>, <<>>, "", NoDefault) >>

OrderFields ==
    << FD("address", <<"d">>, "struct", <<Required>>, <<>>, "Address", NoDefault),
       FD("tags", <<"t">>, "slice", <<Min(1), Max(2)>>, <<Min(2)>>, "", NoDefault) >>

ReplyFields ==
    << FD("content", <<"c">>, "string", <<Required, Min(2)>>, <<>>, "", NoDefault) >>

\* Variants of the payment union: each carries the discriminator field.
CreditCardFields ==
    << FD("type", <<"t">>, "string", <<Required>>, <<>>, "", NoDefault),
       FD("cardNumber", <<"n">>, "string", <<Required, Min(2)>>, <<>>, "", NoDefault) >>

DigitalWalletFields ==
    << FD("type", <<"t">>, "string", <<Required>>, <<>>, "", NoDefault),
       FD("walletId", <<"w">>, "string", <<Required, Min(1)>>, <<>>, "", NoDefault) >>

\* A list of users with pairwise different usernames.
UserFields ==
    << FD("username", <<"u">>, "string", <<Required>>, <<>>, "", NoDefault),
       FD("email", <<"e">>, "string", <<Required, Email>>, <<>>, "", NoDefault) >>

UserListFields ==
    << FD("users", <<"s">>, "structs",
          <<Required, UniqueBy(<<"u">>)>>, <<>>, "User", NoDefault) >>

\* Defaults: a configuration with default values and an optional field, a
\* session whose fields are produced by factories.
ConfigFields ==
    << FD("port", <<"p">>, "int", <<Min(2)>>, <<>>, "", Default(JNum(3))),
       FD("env", <<"v">>, "string", <<LenIs(2)>>, <<>>, "",
          Default(JStr(<<"a", "a">>))),
       FD("backup_email", <<"b">>, "string", <<Email, LenIs(2)>>, <<>>, "",
          NoDefault) >>

SessionFields ==
    << FD("token", <<"k">>, "string", <<Required>>, <<>>, "",
          DefaultFactory(JStr(<<"@">>))),
       FD("created", <<"c">>, "string", <<LenIs(2)>>, <<>>, "",
          DefaultFactory(JStr(<<"a", "@">>))) >>

\* A struct with an extra_fields map next to its declared field.
ProfileFields ==
    << FD("name", <<"n">>, "string", <<>>, <<>>, "", NoDefault) >>
\* A required string next to a required pointer field (*int): nil when the
\* JSON has no value for it.
EndpointFields ==
    << FD("host", <<"h">>, "string", <<Required>>, <<>>, "", NoDefault),
       FD("timeout", <<"t">>, "ptr", <<Required>>, <<>>, "", NoDefault) >>
\* Required fields with further constraints: a struct tagged like
\* Config.APIKey (required with a minimum), with a fixed length, and a
\* slice with size constraints.
BasketFields ==
    << FD("code", <<"c">>, "string", <<Required, Min(2), LenIs(2)>>, <<>>, "", NoDefault),
       FD("qty", <<"q">>, "int", <<Required, Min(2)>>, <<>>, "", NoDefault),
       FD("items", <<"i">>, "slice", <<Required, Min(1), LenIs(2)>>, <<>>, "", NoDefault) >>
\* The types that declare a field tagged extra_fields, and the key under
\* which the model keeps that map in the struct (its JSON name is "-").
HasExtras(T) == T = "Profile"
ExtrasKey == <<"-">>

TypeNames == {"Message", "Account", "Person", "Order"}
\* The types that use uniqueness, defaults and extra-field policies.
FeatureTypeNames ==
    {"UserList", "Config", "Session", "Profile", "Endpoint", "Basket"}

Fields(T) ==
    CASE T = "Message" -> MessageFields
      [] T = "Account" -> AccountFields
      [] T = "Person" -> PersonFields
      [] T = "Address" -> AddressFields
      [] T = "Order" -> OrderFields
      [] T = "Reply" -> ReplyFields
      [] T = "CreditCard" -> CreditCardFields
      [] T = "DigitalWallet" -> DigitalWalletFields
      [] T = "User" -> UserFields
      [] T = "UserList" -> UserListFields
      [] T = "Config" -> ConfigFields
      [] T = "Session" -> SessionFields
      [] T = "Profile" -> ProfileFields
      [] T = "Endpoint" -> EndpointFields
      [] T = "Basket" -> BasketFields

HasRequired(f) == \E i \in DOMAIN f.cons : f.cons[i].kind = "required"

(***************************************************************************)
(* Format predicate and the check of one constraint against one value.     *)
(***************************************************************************)
\* The email format checker, as far as the model's alphabet goes: an "@"
\* that is not the first character.
IsEmail(s) == \E i \in 2..Len(s) : s[i] = "@"

\* Whole-element comparison.
WholeElement(c, e) == e

\* unique=FieldName extracts the named field from a struct element.
Projection(c, e) == e.o[CHOOSE k \in c.set : TRUE]

\* The positions of the elements whose projection repeats that of an
\* earlier element.
Repeats(c, a) ==
    {j \in DOMAIN a : \E i \in 1..(j - 1) : Projection(c, a[i]) = Projection(c, a[j])}

\* The first element found to repeat an earlier one.
FirstRepeat(c, a) == CHOOSE j \in Repeats(c, a) : \A k \in Repeats(c, a) : j <= k

\* TRUE when value constraint c reports an error for value v of the given
\* shape.  min/max and the string format checks skip the empty string and
\* the number zero; len and the collection sizes do not.
FailsValue(c, shape, v) ==
    CASE c.kind = "min" ->
           CASE shape = "string" -> v.s # <<>> /\ Len(v.s) < c.n
             [] shape = "int" -> v.n # 0 /\ v.n < c.n
             [] shape \in {"slice", "structs"} -> Len(v.a) < c.n
             [] OTHER -> FALSE
      [] c.kind = "max" ->
           CASE shape = "string" -> v.s # <<>> /\ Len(v.s) > c.n
             [] shape = "int" -> v.n # 0 /\ v.n > c.n
             [] shape \in {"slice", "structs"} -> Len(v.a) > c.n
             [] OTHER -> FALSE
      [] c.kind = "len" ->
           CASE shape = "string" -> Len(v.s) # c.n
             [] shape \in {"slice", "structs"} -> Len(v.a) # c.n
             [] OTHER -> FALSE
      [] c.kind = "unique" -> shape = "structs" /\ Repeats(c, v.a) # {}
      [] c.kind = "email" -> v.s # <<>> /\ ~IsEmail(v.s)
      [] c.kind = "oneof" -> v.s # <<>> /\ v.s \notin c.set
      [] OTHER -> FALSE

IsZero(shape, v) ==
    CASE shape = "string" -> v.s = <<>>
      [] shape = "int" -> v.n = 0
      [] shape \in {"slice", "structs"} -> v.a = <<>>
      [] shape = "ptr" -> v.t = "null"
      [] OTHER -> FALSE

\* required judged on the value: a zero value counts as missing.
FailsRequiredOnZero(c, shape, v) ==
    IF c.kind = "required" THEN IsZero(shape, v) ELSE FailsValue(c, shape, v)

\* The check of one constraint against a value that is there: required is a
\* matter of presence and never fails on a value.
Fails(c, shape, v) ==
    IF c.kind = "required" THEN FALSE ELSE FailsValue(c, shape, v)

FieldError(path, kind) == [path |-> path, kind |-> kind]

IndexNames == <<"[0]", "[1]", "[2]", "[3]", "[4]", "[5]">>

\* The error a failing constraint reports: at the field's path, and for
\* uniqueness at the index of the repeating element.
ErrorOf(c, shape, v, path) ==
    IF c.kind = "unique"
    THEN FieldError(Append(path, IndexNames[FirstRepeat(c, v.a)]), c.kind)
    ELSE FieldError(path, c.kind)

\* Stops at the first failing constraint of the field.
RECURSIVE CheckAllFirstOnly(_, _, _, _)
CheckAllFirstOnly(cons, shape, v, path) ==
    IF cons = <<>> THEN <<>>
    ELSE IF Fails(Head(cons), shape, v)
         THEN <<FieldError(path, Head(cons).kind)>>
         ELSE CheckAllFirstOnly(Tail(cons), shape, v, path)

\* All constraints of one field (or element) against its value, in
\* declaration order; every failure is collected.
RECURSIVE CheckAll(_, _, _, _)
CheckAll(cons, shape, v, path) ==
    IF cons = <<>> THEN <<>>
    ELSE (IF Fails(Head(cons), shape, v)
          THEN <<ErrorOf(Head(cons), shape, v, path)>> ELSE <<>>)
         \o CheckAll(Tail(cons), shape, v, path)

\* dive: the element constraints against every element, path name[i].
RECURSIVE CheckElements(_, _, _, _)
CheckElements(elemCons, a, path, i) ==
    IF i > Len(a) THEN <<>>
    ELSE CheckAll(elemCons, "string", a[i], Append(path, IndexNames[i]))
         \o CheckElements(elemCons, a, path, i + 1)

(***************************************************************************)
(* Validation engine.                                                      *)
(***************************************************************************)
ExtraIgnore == "ExtraIgnore"
ExtraForbid == "ExtraForbid"
ExtraAllow == "ExtraAllow"
ValidatorOptionsWith(strict, extra) ==
    [StrictMissingFields |-> strict, ExtraFields |-> extra]
ValidatorOptions(strict) == ValidatorOptionsWith(strict, ExtraIgnore)
DefaultValidatorOptions == ValidatorOptions(TRUE)

\* The key existed in the source map (an explicit null counts as missing).
\* A key with an explicit null counts as present.
PresentByKey(f, o) == f.key \in DOMAIN o

Present(f, o) == f.key \in DOMAIN o /\ o[f.key].t # "null"

JsonType(shape) ==
    CASE shape = "string" -> "str"
      [] shape = "int" -> "num"
      [] shape = "ptr" -> "num"
      [] shape = "struct" -> "obj"
      [] shape \in {"slice", "structs"} -> "arr"

\* Typed unmarshal: every present, non-null key carries a JSON value of the
\* field's Go type (json.UnmarshalTypeError otherwise).
RECURSIVE TypesMatch(_, _)
TypesMatch(fields, o) ==
    \A i \in DOMAIN fields :
        LET f == fields[i] IN
        Present(f, o) =>
            /\ o[f.key].t = JsonType(f.shape)
            /\ f.shape = "struct" => TypesMatch(Fields(f.nested), o[f.key].o)
            /\ f.shape = "slice" =>
                   \A j \in DOMAIN o[f.key].a : o[f.key].a[j].t = "str"
            /\ f.shape = "structs" =>
                   \A j \in DOMAIN o[f.key].a :
                       /\ o[f.key].a[j].t = "obj"
                       /\ TypesMatch(Fields(f.nested), o[f.key].a[j].o)

RECURSIVE ZeroValue(_)
RECURSIVE Populate(_, _)
\* The Go zero value of a field.
ZeroValue(f) ==
    CASE f.shape = "string" -> JStr(<<>>)
      [] f.shape = "int" -> JNum(0)
      [] f.shape = "ptr" -> JNull
      [] f.shape \in {"slice", "structs"} -> JArr(<<>>)
      [] f.shape = "struct" -> JObj(Populate(Fields(f.nested), <<>>))

\* The default also replaces a zero value that was supplied.
DefaultedOnZero(f, o) ==
    f.def.has /\ (~Present(f, o) \/ IsZero(f.shape, o[f.key]))

\* The field takes its default (or its factory is called): it has one and
\* the field is missing from the JSON.
Defaulted(f, o) == f.def.has /\ ~Present(f, o)

\* The struct built from the source map: the supplied value for a present
\* key, else the default, else the zero value.
Populate(fields, o) ==
    [k \in {fields[i].key : i \in DOMAIN fields} |->
        LET f == fields[CHOOSE i \in DOMAIN fields : fields[i].key = k] IN
        IF Defaulted(f, o) THEN f.def.v
        ELSE IF Present(f, o)
        THEN IF f.shape = "struct"
             THEN JObj(Populate(Fields(f.nested), o[k].o))
             ELSE o[k]
        ELSE ZeroValue(f)]

\* The fields whose defaultFactory function is called while the struct is
\* built from the decoding d.
FactoryCalls(fields, d) ==
    IF d.status # "complete" THEN {}
    ELSE {fields[i].name : i \in {j \in DOMAIN fields :
                                     fields[j].def.factory /\ Defaulted(fields[j], d.v.o)}}

RECURSIVE EvalFields(_, _, _, _, _)
\* required enforced only under StrictMissingFields.
EvalFieldLenient(f, o, prefix, unmarshal, opts) ==
    LET path == Append(prefix, f.name) IN
    IF unmarshal /\ ~Present(f, o)
    THEN IF f.def.has THEN <<>>
         ELSE IF ~opts.StrictMissingFields THEN <<>>
         ELSE IF HasRequired(f) THEN <<FieldError(path, "required")>>
         ELSE <<FieldError(path, "missing")>>
    ELSE LET v == o[f.key] IN
         CheckAll(f.cons, f.shape, v, path)
         \o (IF f.shape = "struct"
             THEN EvalFields(Fields(f.nested), v.o, path, unmarshal, opts)
             ELSE IF f.shape = "slice"
             THEN CheckElements(f.elemCons, v.a, path, 1)
             ELSE <<>>)

\* The elements are looked at only when the collection's own constraints
\* hold, and only up to the declared max count.
EvalFieldSizeFirst(f, o, prefix, unmarshal, opts) ==
    LET path == Append(prefix, f.name) IN
    IF unmarshal /\ ~Present(f, o)
    THEN IF f.def.has THEN <<>>
         ELSE IF HasRequired(f) THEN <<FieldError(path, "required")>>
         ELSE IF opts.StrictMissingFields THEN <<FieldError(path, "missing")>>
         ELSE <<>>
    ELSE LET v == o[f.key] IN
         CheckAll(f.cons, f.shape, v, path)
         \o (IF f.shape = "struct"
             THEN EvalFields(Fields(f.nested), v.o, path, unmarshal, opts)
             ELSE IF f.shape = "slice" /\ CheckAll(f.cons, f.shape, v, path) = <<>>
             THEN CheckElements(f.elemCons, v.a, path, 1)
             ELSE <<>>)

\* Only a field tagged required is reported when it is missing.
EvalFieldRequiredOnly(f, o, prefix, unmarshal, opts) ==
    LET path == Append(prefix, f.name) IN
    IF unmarshal /\ ~Present(f, o)
    THEN IF f.def.has THEN <<>>
         ELSE IF HasRequired(f) THEN <<FieldError(path, "required")>>
         ELSE <<>>
    ELSE LET v == o[f.key] IN
         CheckAll(f.cons, f.shape, v, path)
         \o (IF f.shape = "struct"
             THEN EvalFields(Fields(f.nested), v.o, path, unmarshal, opts)
             ELSE IF f.shape = "slice"
             THEN CheckElements(f.elemCons, v.a, path, 1)
             ELSE <<>>)

\* Presence judged on the value: a zero value counts as a missing key.
EvalFieldZeroIsMissing(f, o, prefix, unmarshal, opts) ==
    LET path == Append(prefix, f.name) IN
    IF unmarshal /\ (~Present(f, o) \/ IsZero(f.shape, o[f.key]))
    THEN IF f.def.has THEN <<>>
         ELSE IF HasRequired(f) THEN <<FieldError(path, "required")>>
         ELSE IF opts.StrictMissingFields THEN <<FieldError(path, "missing")>>
         ELSE <<>>
    ELSE LET v == o[f.key] IN
         CheckAll(f.cons, f.shape, v, path)
         \o (IF f.shape = "struct"
             THEN EvalFields(Fields(f.nested), v.o, path, unmarshal, opts)
             ELSE IF f.shape = "slice"
             THEN CheckElements(f.elemCons, v.a, path, 1)
             ELSE <<>>)

\* One field: presence first (unmarshal only), then every value constraint
\* in declaration order, then the nested struct or the elements.
EvalField(f, o, prefix, unmarshal, opts) ==
    LET path == Append(prefix, f.name) IN
    IF unmarshal /\ ~Present(f, o)
    THEN IF f.def.has THEN <<>>
         ELSE IF HasRequired(f) THEN <<FieldError(path, "required")>>
         ELSE IF opts.StrictMissingFields THEN <<FieldError(path, "missing")>>
         ELSE <<>>
    ELSE LET v == o[f.key] IN
         CheckAll(f.cons, f.shape, v, path)
         \o (IF f.shape = "struct"
             THEN EvalFields(Fields(f.nested), v.o, path, unmarshal, opts)
             ELSE IF f.shape = "slice"
             THEN CheckElements(f.elemCons, v.a, path, 1)
             ELSE <<>>)

EvalFields(fields, o, prefix, unmarshal, opts) ==
    IF fields = <<>> THEN <<>>
    ELSE EvalField(Head(fields), o, prefix, unmarshal, opts)
         \o EvalFields(Tail(fields), o, prefix, unmarshal, opts)

\* The Validatable hook of the types that implement it: Person rejects
\* equal first and last names.  TRUE when Validate() returns an error.
HookFails(T, s) ==
    T = "Person" /\ s[<<"f">>].s = s[<<"l">>].s

\* The hook runs once, after the field-level evaluation; its error is
\* associated with the struct, not a field.
HookErrors(T, s) ==
    IF HookFails(T, s) THEN <<FieldError(<<>>, "Validate")>> ELSE <<>>

NoValue == JNull
NoError == [class |-> "none", errs |-> <<>>]
DecodeError(kind) == [class |-> kind, errs |-> <<>>]
ValidationError(errs) == [class |-> "validation", errs |-> errs]
Ret(value, err) == [value |-> value, err |-> err]

\* The outcome of a validation: the value when nothing was collected, else
\* no value and a ValidationError holding everything collected.
Collected(value, errs) ==
    IF errs = <<>> THEN Ret(value, NoError)
    ELSE Ret(NoValue, ValidationError(errs))

\* Every key of the source map counts as unknown.
AllKeys(fields, o) == DOMAIN o

\* The keys of the source map that the type does not declare.
Unknown(fields, o) == DOMAIN o \ {fields[i].key : i \in DOMAIN fields}

\* ExtraForbid: one error per unknown key, named after the key (the keys of
\* the model are one character long).
RECURSIVE UnknownErrors(_)
UnknownErrors(keys) ==
    IF keys = {} THEN <<>>
    ELSE LET k == CHOOSE x \in keys : TRUE IN
         <<FieldError(<<k[1]>>, "unknown")>> \o UnknownErrors(keys \ {k})

ExtraErrors(T, opts, o) ==
    IF opts.ExtraFields = ExtraForbid
    THEN UnknownErrors(Unknown(Fields(T), o)) ELSE <<>>

\* ExtraAllow: the unknown keys with their values go to the extra_fields
\* map of the struct s; under the other policies the map stays empty.
Captured(T, opts, o, s) ==
    IF ~HasExtras(T) THEN s
    ELSE Extend(s, ExtrasKey,
                JObj(IF opts.ExtraFields = ExtraAllow
                     THEN [k \in Unknown(Fields(T), o) |-> o[k]]
                     ELSE <<>>))

\* The hook runs only when the field-level evaluation found nothing.
ValidateSourceHookWhenClean(T, opts, o) ==
    Collected(JObj(Captured(T, opts, o, Populate(Fields(T), o))),
              IF EvalFields(Fields(T), o, <<>>, TRUE, opts) = <<>>
              THEN ExtraErrors(T, opts, o)
                   \o HookErrors(T, Populate(Fields(T), o))
              ELSE EvalFields(Fields(T), o, <<>>, TRUE, opts)
                   \o ExtraErrors(T, opts, o))

\* Steps 2 to 5 of the pipeline on the decoded source map o: field
\* validation, unknown keys, defaults, the cross-field hook, error
\* collection.
ValidateSource(T, opts, o) ==
    Collected(JObj(Captured(T, opts, o, Populate(Fields(T), o))),
              EvalFields(Fields(T), o, <<>>, TRUE, opts)
              \o ExtraErrors(T, opts, o)
              \o HookErrors(T, Populate(Fields(T), o)))

\* Typed unmarshal of the decoding d, then the rest of the pipeline.
UnmarshalDecoded(T, opts, d) ==
    IF d.status # "complete" THEN Ret(NoValue, DecodeError("syntax"))
    ELSE IF ~TypesMatch(Fields(T), d.v.o) THEN Ret(NoValue, DecodeError("type"))
    ELSE ValidateSource(T, opts, d.v.o)

\* A syntax error reported as an entry of the ValidationResult.
UnmarshalMerged(T, opts, data) ==
    IF Decode(data).status # "complete"
    THEN Ret(NoValue, ValidationError(<<FieldError(<<>>, "syntax")>>))
    ELSE UnmarshalDecoded(T, opts, Decode(data))

\* Validator.Unmarshal: decode, typed unmarshal, field validation, defaults,
\* cross-field hook, error collection.
Unmarshal(T, opts, data) == UnmarshalDecoded(T, opts, Decode(data))

\* Validate through the unmarshal path, a zero-valued field taken as a
\* missing key.
ValidateAsUnmarshal(T, opts, s) ==
    LET fs == Fields(T)
        nz == {fs[i].key : i \in {j \in DOMAIN fs : ~IsZero(fs[j].shape, s[fs[j].key])}}
        o == [k \in nz |-> s[k]]
        errs == EvalFields(fs, o, <<>>, TRUE, opts) \o HookErrors(T, s) IN
    Collected(NoValue, errs).err

\* Validator.Validate on an existing struct: value constraints only, no
\* presence check.
Validate(T, opts, s) ==
    Collected(NoValue, EvalFields(Fields(T), s, <<>>, FALSE, opts)
                       \o HookErrors(T, s)).err

(***************************************************************************)
(* Inputs of the model: JSON documents written out character by            *)
(* character, and the structs handed to Validate.                          *)
(***************************************************************************)
RECURSIVE EncodeNum(_)
EncodeNum(n) ==
    IF n < 10 THEN <<Digits[n + 1]>>
    ELSE EncodeNum(n \div 10) \o <<Digits[(n % 10) + 1]>>

RECURSIVE Encode(_)
RECURSIVE EncodeMembers(_, _)
RECURSIVE EncodeElements(_, _)
EncodeMembers(o, keys) ==
    LET k == CHOOSE x \in keys : TRUE
        m == <<QUOTE>> \o k \o <<QUOTE, ":">> \o Encode(o[k]) IN
    IF keys = {k} THEN m
    ELSE m \o <<",">> \o EncodeMembers(o, keys \ {k})

EncodeElements(a, i) ==
    IF i = Len(a) THEN Encode(a[i])
    ELSE Encode(a[i]) \o <<",">> \o EncodeElements(a, i + 1)

Encode(v) ==
    CASE v.t = "str" -> <<QUOTE>> \o v.s \o <<QUOTE>>
      [] v.t = "num" -> EncodeNum(v.n)
      [] v.t = "null" -> NullLit
      [] v.t = "arr" ->
           IF v.a = <<>> THEN <<"[", "]">>
           ELSE <<"[">> \o EncodeElements(v.a, 1) \o <<"]">>
      [] v.t = "obj" ->
           IF DOMAIN v.o = {} THEN <<"{", "}">>
           ELSE <<"{">> \o EncodeMembers(v.o, DOMAIN v.o) \o <<"}">>

Alphabet == {"a", "@"}
Strings(alpha, n) == UNION {[1..k -> alpha] : k \in 0..n}
ElemStrings == {JStr(s) : s \in Strings({"a"}, 2) \ {<<>>}}

\* Struct elements of a slice: every field set, to one of two values.
ElemStructs(T) ==
    {JObj(m) : m \in [{Fields(T)[i].key : i \in DOMAIN Fields(T)} ->
                         {JStr(<<"a">>), JStr(<<"a", "@">>)}]}

RECURSIVE MapsOf(_)
RECURSIVE FieldValues(_)
\* JSON values a document may carry for a field: well-typed ones, an
\* explicit null and one value of the wrong JSON type.
FieldValues(f) ==
    CASE f.shape = "string" ->
           {JStr(s) : s \in Strings(Alphabet, MaxStrLen)} \cup {JNull, JNum(1)}
      [] f.shape \in {"int", "ptr"} ->
           {JNum(n) : n \in 0..MaxNum} \cup {JNull, JStr(<<"a">>)}
      [] f.shape = "struct" ->
           {JObj(m) : m \in MapsOf(Fields(f.nested))} \cup {JNull}
      [] f.shape = "slice" ->
           {JArr(a) : a \in Strings(ElemStrings, MaxItems)} \cup {JNull}
      [] f.shape = "structs" ->
           {JArr(a) : a \in Strings(ElemStructs(f.nested), MaxItems)} \cup {JNull}

\* Every source map over the fields: each key absent or present with one of
\* its values.
MapsOf(fields) ==
    IF fields = <<>> THEN {<<>>}
    ELSE LET f == Head(fields)
             rest == MapsOf(Tail(fields)) IN
         rest \cup {Extend(m, f.key, v) : m \in rest, v \in FieldValues(f)}

Documents(T) == {Encode(JObj(m)) : m \in MapsOf(Fields(T))}

\* Undeclared keys a document may carry, each absent or with a value.
ExtraKeys == {<<"x">>, <<"z">>}
ExtraMaps ==
    UNION {[ks -> {JNum(1), JStr(<<"a">>)}] : ks \in SUBSET ExtraKeys}
Merged(m, e) == [k \in DOMAIN m \cup DOMAIN e |-> IF k \in DOMAIN e THEN e[k] ELSE m[k]]
\* The documents of a feature type: those of a type with an extra_fields
\* map also with undeclared keys.
FeatureDocuments(T) ==
    IF HasExtras(T)
    THEN {Encode(JObj(Merged(m, e))) : m \in MapsOf(Fields(T)), e \in ExtraMaps}
    ELSE Documents(T)
\* New panics for ExtraAllow on a type without extra_fields map.
ExtraPolicies(T) ==
    IF HasExtras(T) THEN {ExtraIgnore, ExtraForbid, ExtraAllow}
    ELSE {ExtraIgnore, ExtraForbid}

\* Texts that are not one JSON object: truncations of and trailing bytes
\* after the documents of a type.
Damaged(T) ==
    UNION {{SubSeq(d, 1, k) : k \in 0..Len(d) - 1} : d \in Documents(T)}
    \cup {d \o <<c>> : d \in Documents(T), c \in {"}", "a"}}

\* Structs as a Go program can build them: every field set, Go-typed.
Structs(T) ==
    {Populate(Fields(T), m) :
        m \in {x \in MapsOf(Fields(T)) : TypesMatch(Fields(T), x)}}

(***************************************************************************)
(* State.                                                                  *)
(***************************************************************************)
VARIABLES
    call,       \* the last Unmarshal / Validate call, what it returned and
                \* the factories it called
    parser,     \* the StreamParser: its buffer and its StreamState
    ret,        \* what the parser's last method call returned
    fresh,      \* a second parser, created anew at every Reset of the first
    fret,       \* what the second parser's last Feed returned
    wasReset,   \* the first parser has been Reset
    dropped,    \* the last Reset discarded buffered bytes
    lastChunk,  \* the chunk handed to the last Feed
    union,      \* the last NewUnion call: its options, the validator, the error
    ucall,      \* the last Unmarshal on the union validator and its result
    registry,   \* the custom-validation registry: the number of registrations
    cache,      \* the process-wide caches: per kind and type, the stored entry
    nextId,     \* identity of the next validator or schema built
    routine,    \* per goroutine: its Simple API call and how far it has got
    returned,   \* per cache and type: the calls that have returned
    validator,  \* the last New call: the declaration, the options, the outcome
    vcall,      \* the last call answered by that validator
    shared,     \* the StreamParser the feeders share
    mu,         \* the goroutine holding the parser's mutex, or NoHolder
    feeder,     \* per goroutine: where its Feed call stands
    fed,        \* the chunks of the Feed calls that returned, in order
    changelog,  \* the changelog file: whether it exists, and its lines
    releases,   \* what gh release list answers, newest first
    run,        \* the runs of generate-changelog.sh: the file before the last one, what it added
    html,       \* the <html> element: its data-theme and lang attributes, its class 'dark'
    root        \* the Root component: mounted or not, its observer, records and timer

vars == <<call, parser, ret, fresh, fret, wasReset, dropped, lastChunk,
          union, ucall, registry, cache, nextId, routine, returned,
          validator, vcall,
          shared, mu, feeder, fed,
          changelog, releases, run,
          html, root>>
engineVars == <<call>>
streamVars == <<parser, ret, fresh, fret, wasReset, dropped, lastChunk>>
unionVars == <<union, ucall>>
cacheVars == <<registry, cache, nextId, routine, returned>>
buildVars == <<validator, vcall>>
sharedVars == <<shared, mu, feeder, fed>>
changelogVars == <<changelog, releases, run>>
themeVars == <<html, root>>
\* What the operations of one component leave alone.
notEngine == <<streamVars, unionVars, cacheVars, buildVars, sharedVars, changelogVars, themeVars>>
notStream == <<engineVars, unionVars, cacheVars, buildVars, sharedVars, changelogVars, themeVars>>
notUnion == <<engineVars, streamVars, cacheVars, buildVars, sharedVars, changelogVars, themeVars>>
notCache == <<engineVars, streamVars, unionVars, buildVars, sharedVars, changelogVars, themeVars>>
notBuild == <<engineVars, streamVars, unionVars, cacheVars, sharedVars, changelogVars, themeVars>>
notShared == <<engineVars, streamVars, unionVars, cacheVars, buildVars, changelogVars, themeVars>>
notChangelog == <<engineVars, streamVars, unionVars, cacheVars, buildVars, sharedVars, themeVars>>
notTheme == <<engineVars, streamVars, unionVars, cacheVars, buildVars, sharedVars, changelogVars>>

Idle == [op |-> "idle", T |-> "", opts |-> DefaultValidatorOptions,
         data |-> <<>>, obj |-> <<>>, out |-> Ret(NoValue, NoError),
         factories |-> {}]

(***************************************************************************)
(* Engine operations.                                                      *)
(***************************************************************************)
CallUnmarshal ==
    /\ call.op = "idle"
    /\ \E T \in TypeNames, strict \in BOOLEAN :
         \E data \in Documents(T) \cup Damaged(T) :
            call' = [op |-> "Unmarshal", T |-> T, opts |-> ValidatorOptions(strict),
                     data |-> data, obj |-> <<>>,
                     out |-> Unmarshal(T, ValidatorOptions(strict), data),
                     factories |-> FactoryCalls(Fields(T), Decode(data))]
    /\ UNCHANGED notEngine

CallValidate ==
    /\ call.op = "idle"
    /\ \E T \in TypeNames, strict \in BOOLEAN :
         \E s \in Structs(T) :
            call' = [op |-> "Validate", T |-> T, opts |-> ValidatorOptions(strict),
                     data |-> <<>>, obj |-> s,
                     out |-> Ret(NoValue, Validate(T, ValidatorOptions(strict), s)),
                     factories |-> {}]
    /\ UNCHANGED notEngine

\* The same entry points on the types of FeatureTypeNames.
CallUnmarshalFeature ==
    /\ call.op = "idle"
    /\ \E T \in FeatureTypeNames, strict \in BOOLEAN :
         \E extra \in ExtraPolicies(T), data \in FeatureDocuments(T) :
            call' = [op |-> "Unmarshal", T |-> T,
                     opts |-> ValidatorOptionsWith(strict, extra),
                     data |-> data, obj |-> <<>>,
                     out |-> Unmarshal(T, ValidatorOptionsWith(strict, extra), data),
                     factories |-> FactoryCalls(Fields(T), Decode(data))]
    /\ UNCHANGED notEngine

CallValidateFeature ==
    /\ call.op = "idle"
    /\ \E T \in FeatureTypeNames, strict \in BOOLEAN :
         \E s \in Structs(T) :
            call' = [op |-> "Validate", T |-> T, opts |-> ValidatorOptions(strict),
                     data |-> <<>>, obj |-> s,
                     out |-> Ret(NoValue, Validate(T, ValidatorOptions(strict), s)),
                     factories |-> {}]
    /\ UNCHANGED notEngine

\* The caller has looked at the result and is ready for the next call.
Return ==
    /\ call.op # "idle"
    /\ call' = Idle
    /\ UNCHANGED notEngine

(***************************************************************************)
(* StreamParser.                                                           *)
(***************************************************************************)
StreamState(bytes, attempts, complete, lastError) ==
    [BytesReceived |-> bytes, ParseAttempts |-> attempts,
     IsComplete |-> complete, LastError |-> lastError]

NewStreamParser(T, opts) ==
    [T |-> T, opts |-> opts, buffer |-> <<>>,
     state |-> StreamState(0, 0, FALSE, "none")]

\* An attempt that fails to decode is not counted.
AttemptUncountedOnFailure(p, buf, bytes, attempts, r) ==
    IF r.err.class = "syntax"
    THEN [p |-> [p EXCEPT !.buffer = buf,
                          !.state = StreamState(bytes, attempts - 1, FALSE, "syntax")],
          result |-> NoValue,
          state |-> StreamState(bytes, attempts - 1, FALSE, "syntax"),
          err |-> NoError]
    ELSE [p |-> [p EXCEPT !.buffer = buf,
                          !.state = StreamState(bytes, attempts, TRUE, "none")],
          result |-> r.value,
          state |-> StreamState(bytes, attempts, TRUE, "none"),
          err |-> r.err]

\* One parse attempt on the accumulated bytes buf, r being what Unmarshal
\* makes of them: a buffer that does not decode is kept and waited on.
Attempt(p, buf, bytes, attempts, r) ==
    IF r.err.class = "syntax"
    THEN [p |-> [p EXCEPT !.buffer = buf,
                          !.state = StreamState(bytes, attempts, FALSE, "syntax")],
          result |-> NoValue,
          state |-> StreamState(bytes, attempts, FALSE, "syntax"),
          err |-> NoError]
    ELSE [p |-> [p EXCEPT !.buffer = buf,
                          !.state = StreamState(bytes, attempts, TRUE, "none")],
          result |-> r.value,
          state |-> StreamState(bytes, attempts, TRUE, "none"),
          err |-> r.err]

\* An undecodable buffer reported as a syntax error of the call.
FeedIncompleteIsError(p, chunk) ==
    LET buf == p.buffer \o chunk
        bytes == p.state.BytesReceived + Len(chunk)
        attempts == p.state.ParseAttempts + 1
        d == Decode(buf) IN
    IF d.status # "complete"
    THEN LET st == StreamState(bytes, attempts, FALSE, "syntax") IN
         [p |-> [p EXCEPT !.buffer = buf, !.state = st],
          result |-> NoValue, state |-> st, err |-> DecodeError("syntax")]
    ELSE LET st == StreamState(bytes, attempts, TRUE, "none")
             r == Unmarshal(p.T, p.opts, buf) IN
         [p |-> [p EXCEPT !.buffer = buf, !.state = st],
          result |-> r.value, state |-> st, err |-> r.err]

\* IsComplete reported only when the document also validates.
FeedCompleteWhenValid(p, chunk) ==
    LET buf == p.buffer \o chunk
        bytes == p.state.BytesReceived + Len(chunk)
        attempts == p.state.ParseAttempts + 1
        d == Decode(buf) IN
    IF d.status # "complete"
    THEN LET st == StreamState(bytes, attempts, FALSE, "syntax") IN
         [p |-> [p EXCEPT !.buffer = buf, !.state = st],
          result |-> NoValue, state |-> st, err |-> NoError]
    ELSE LET r == Unmarshal(p.T, p.opts, buf)
             st == StreamState(bytes, attempts, r.err = NoError, "none") IN
         [p |-> [p EXCEPT !.buffer = buf, !.state = st],
          result |-> r.value, state |-> st, err |-> r.err]

\* Each chunk decoded on its own; the buffer only records what arrived.
FeedChunkAlone(p, chunk) ==
    LET buf == p.buffer \o chunk
        bytes == p.state.BytesReceived + Len(chunk)
        attempts == p.state.ParseAttempts + 1
        d == Decode(chunk) IN
    IF d.status # "complete"
    THEN LET st == StreamState(bytes, attempts, FALSE, "syntax") IN
         [p |-> [p EXCEPT !.buffer = buf, !.state = st],
          result |-> NoValue, state |-> st, err |-> NoError]
    ELSE LET st == StreamState(bytes, attempts, TRUE, "none")
             r == Unmarshal(p.T, p.opts, chunk) IN
         [p |-> [p EXCEPT !.buffer = buf, !.state = st],
          result |-> r.value, state |-> st, err |-> r.err]

\* A new stream started by the parser itself once a document is complete.
FeedRestartsAfterComplete(p, chunk) ==
    LET buf == IF p.state.IsComplete THEN chunk ELSE p.buffer \o chunk
        bytes == p.state.BytesReceived + Len(chunk)
        attempts == p.state.ParseAttempts + 1
        d == Decode(buf) IN
    IF d.status # "complete"
    THEN LET st == StreamState(bytes, attempts, FALSE, "syntax") IN
         [p |-> [p EXCEPT !.buffer = buf, !.state = st],
          result |-> NoValue, state |-> st, err |-> NoError]
    ELSE LET st == StreamState(bytes, attempts, TRUE, "none")
             r == Unmarshal(p.T, p.opts, buf) IN
         [p |-> [p EXCEPT !.buffer = buf, !.state = st],
          result |-> r.value, state |-> st, err |-> r.err]

\* Feed: append the chunk, try to decode the whole buffer; while that fails
\* return no result and no error, otherwise validate and report completion.
\* The result carries the parser after the call and the returned triple.
Feed(p, chunk) ==
    Attempt(p, p.buffer \o chunk,
            p.state.BytesReceived + Len(chunk), p.state.ParseAttempts + 1,
            Unmarshal(p.T, p.opts, p.buffer \o chunk))

\* The call counts as a parse attempt.
CurrentStateCounted(p) == [p.state EXCEPT !.ParseAttempts = @ + 1]

\* CurrentState: the state of the last Feed, without feeding.
CurrentState(p) == p.state

\* Only the bytes are dropped; the counters run on.
ResetBufferOnly(p) == [p EXCEPT !.buffer = <<>>]

\* Reset: empty buffer, zero state, same type binding.
Reset(p) == [p EXCEPT !.buffer = <<>>, !.state = StreamState(0, 0, FALSE, "none")]

MaxBuf == 12
StreamType == "Reply"

\* The documents a producer streams, and every chunk a split of one of them
\* can deliver, plus an empty chunk and a chunk of garbage.
StreamDocuments ==
    {Encode(JObj(m)) : m \in
        {<<>>} \cup {Extend(<<>>, <<"c">>, v) :
                        v \in {JStr(s) : s \in Strings({"a"}, MaxStrLen)} \cup {JNum(1)}}}

Chunks ==
    UNION {{SubSeq(d, 1, k) : k \in 1..Len(d)} \cup
           {SubSeq(d, k, Len(d)) : k \in 2..Len(d)} : d \in StreamDocuments}
    \cup {<<>>, <<"a">>}

FeedRet(f) == [op |-> "Feed", result |-> f.result, state |-> f.state, err |-> f.err]
NoRet == [op |-> "none", result |-> NoValue,
          state |-> StreamState(0, 0, FALSE, "none"), err |-> NoError]

\* The chunk goes to both parsers; f and g are what Feed returned.
FeedBoth(f, g, chunk) ==
    /\ parser' = f.p
    /\ ret' = FeedRet(f)
    /\ fresh' = g.p
    /\ fret' = FeedRet(g)
    /\ lastChunk' = chunk

DoFeed ==
    /\ parser.state.ParseAttempts < MaxFeeds
    /\ \E chunk \in Chunks :
         /\ Len(parser.buffer) + Len(chunk) <= MaxBuf
         /\ FeedBoth(Feed(parser, chunk), Feed(fresh, chunk), chunk)
    /\ UNCHANGED <<notStream, wasReset, dropped>>

DoCurrentState ==
    /\ ret' = [op |-> "CurrentState", result |-> NoValue,
               state |-> CurrentState(parser), err |-> NoError]
    /\ UNCHANGED <<notStream, parser, fresh, fret, wasReset, dropped, lastChunk>>

DoReset ==
    /\ parser' = Reset(parser)
    /\ ret' = NoRet
    /\ fresh' = NewStreamParser(StreamType, DefaultValidatorOptions)
    /\ fret' = NoRet
    /\ wasReset' = TRUE
    /\ dropped' = (parser.buffer # <<>>)
    /\ lastChunk' = <<>>
    /\ UNCHANGED notStream

(***************************************************************************)
(* Discriminated unions.                                                   *)
(***************************************************************************)
MaxVariants == 2

UnionOptions(field, variants) ==
    [DiscriminatorField |-> field, Variants |-> variants]
\* VariantFor[T](value)
VariantFor(T, value) == [T |-> T, value |-> value]

NoUnion == UnionOptions(<<>>, <<>>)
HasDuplicates(variants) ==
    \E i, j \in DOMAIN variants :
        i < j /\ variants[i].value = variants[j].value

\* Duplicates accepted: the variant registered last wins.
NewUnionLastWins(opts) ==
    [opts |-> opts, validator |-> opts, err |-> "none"]

\* NewUnion: the validator, or a creation error and no validator.
NewUnion(opts) ==
    IF HasDuplicates(opts.Variants)
    THEN [opts |-> opts, validator |-> NoUnion, err |-> "duplicate variants"]
    ELSE [opts |-> opts, validator |-> opts, err |-> "none"]

\* What a union Unmarshal returns: the value and error, the variant whose
\* validation ran ("" when none did) and the discriminator value an
\* unknown-discriminator error names.
UnionRet(T, r, received) ==
    [value |-> r.value, err |-> r.err, variant |-> T, received |-> received]

\* The variants registered for the value.
Matching(u, value) ==
    {i \in DOMAIN u.Variants : u.Variants[i].value = value}

\* A registered value that starts with the received one also matches.
UnionDecodedByPrefix(u, d) ==
    IF d.status # "complete"
    THEN UnionRet("", Ret(NoValue, DecodeError("syntax")), <<>>)
    ELSE IF u.DiscriminatorField \notin DOMAIN d.v.o
    THEN UnionRet("", Ret(NoValue, DecodeError("missing discriminator")), <<>>)
    ELSE LET got == d.v.o[u.DiscriminatorField].s
             m == {i \in DOMAIN u.Variants :
                     /\ Len(got) <= Len(u.Variants[i].value)
                     /\ SubSeq(u.Variants[i].value, 1, Len(got)) = got} IN
         IF m = {}
         THEN UnionRet("", Ret(NoValue, DecodeError("unknown discriminator")), got)
         ELSE UnionRet(u.Variants[CHOOSE i \in m : TRUE].T,
                       UnmarshalDecoded(u.Variants[CHOOSE i \in m : TRUE].T,
                                        DefaultValidatorOptions, d), <<>>)

\* The document is validated against every registered variant and the
\* errors are merged.
RECURSIVE AllVariantErrors(_, _)
AllVariantErrors(variants, o) ==
    IF variants = <<>> THEN <<>>
    ELSE EvalFields(Fields(Head(variants).T), o, <<>>, TRUE, DefaultValidatorOptions)
         \o AllVariantErrors(Tail(variants), o)
UnionDecodedMerging(u, d) ==
    IF d.status # "complete"
    THEN UnionRet("", Ret(NoValue, DecodeError("syntax")), <<>>)
    ELSE IF u.DiscriminatorField \notin DOMAIN d.v.o
    THEN UnionRet("", Ret(NoValue, DecodeError("missing discriminator")), <<>>)
    ELSE IF Matching(u, d.v.o[u.DiscriminatorField].s) = {}
    THEN UnionRet("", Ret(NoValue, DecodeError("unknown discriminator")),
                  d.v.o[u.DiscriminatorField].s)
    ELSE LET T == u.Variants[CHOOSE i \in Matching(u, d.v.o[u.DiscriminatorField].s) : TRUE].T IN
         UnionRet(T, Collected(JObj(Populate(Fields(T), d.v.o)),
                               AllVariantErrors(u.Variants, d.v.o)), <<>>)

\* Inspect the discriminator, select the matching variant, validate the
\* document against that variant.
UnionDecoded(u, d) ==
    IF d.status # "complete"
    THEN UnionRet("", Ret(NoValue, DecodeError("syntax")), <<>>)
    ELSE IF u.DiscriminatorField \notin DOMAIN d.v.o
    THEN UnionRet("", Ret(NoValue, DecodeError("missing discriminator")), <<>>)
    ELSE IF Matching(u, d.v.o[u.DiscriminatorField].s) = {}
    THEN UnionRet("", Ret(NoValue, DecodeError("unknown discriminator")),
                  d.v.o[u.DiscriminatorField].s)
    ELSE UnionRet(u.Variants[CHOOSE i \in Matching(u, d.v.o[u.DiscriminatorField].s) : TRUE].T,
                  UnmarshalDecoded(
                      u.Variants[CHOOSE i \in Matching(u, d.v.o[u.DiscriminatorField].s) : TRUE].T,
                      DefaultValidatorOptions, d),
                  <<>>)

\* UnionValidator.Unmarshal
UnionUnmarshal(u, data) == UnionDecoded(u, Decode(data))

DiscriminatorField == <<"t">>
VariantTypes == {"CreditCard", "DigitalWallet"}
DiscriminatorValues == {<<"a">>, <<"b">>, <<"a", "b">>}

\* The variant lists a caller may hand to NewUnion.
VariantLists ==
    UNION {[1..k -> {VariantFor(T, v) : T \in VariantTypes, v \in DiscriminatorValues}] :
              k \in 1..MaxVariants}

\* Documents sent to a union: the discriminator absent or any short string,
\* the variants' own fields absent or set; and the same cut short.
UnionMaps ==
    {m \in [{<<"t">>, <<"n">>, <<"w">>} -> {JNull} \cup {JStr(x) : x \in Strings({"a", "b"}, MaxStrLen)}] :
        /\ m[<<"n">>] \in {JNull, JStr(<<"a">>), JStr(<<"a", "a">>)}
        /\ m[<<"w">>] \in {JNull, JStr(<<"a">>)}}
\* JNull stands for an absent key here.
Supplied(m) == [k \in {x \in DOMAIN m : m[x] # JNull} |-> m[k]]
UnionDocuments == {Encode(JObj(Supplied(m))) : m \in UnionMaps}
UnionInputs ==
    UnionDocuments \cup {SubSeq(d, 1, Len(d) - 1) : d \in UnionDocuments}

NoUnionCall == [op |-> "none", data |-> <<>>,
                out |-> UnionRet("", Ret(NoValue, NoError), <<>>)]

DoNewUnion ==
    /\ ucall.op = "none"
    /\ \E variants \in VariantLists :
          union' = NewUnion(UnionOptions(DiscriminatorField, variants))
    /\ ucall' = NoUnionCall
    /\ UNCHANGED notUnion

DoUnionUnmarshal ==
    /\ ucall.op = "none"
    /\ union.validator # NoUnion
    /\ \E data \in UnionInputs :
          ucall' = [op |-> "Unmarshal", data |-> data,
                    out |-> UnionUnmarshal(union.validator, data)]
    /\ UNCHANGED <<notUnion, union>>

\* The caller has looked at the result.
UnionReturn ==
    /\ ucall.op # "none"
    /\ ucall' = NoUnionCall
    /\ UNCHANGED <<notUnion, union>>

(***************************************************************************)
(* The process-wide validator and schema caches of the Simple API, and the *)
(* registry of custom validations.                                         *)
(***************************************************************************)
MaxGoroutines == 2
MaxBuilds == 3
MaxRegistrations == 1

Goroutines == 1..MaxGoroutines
CachedTypes == {"User", "Product"}
\* The two caches: validators (Unmarshal, Validate) and schemas (Schema).
CacheKinds == {"validator", "schema"}

\* A built validator or generated schema: its identity (the reference), its
\* type and the registry it was parsed against.
Built(id, T, ver) == [id |-> id, T |-> T, ver |-> ver]
None == Built(0, "", 0)

\* sync.Map
Load(m, T) == m[T]
\* LoadOrStore: the entry already stored wins over the value offered.
LoadOrStore(m, T, v) == IF m[T] = None THEN v ELSE m[T]

EmptyCache == [k \in CacheKinds |-> [T \in CachedTypes |-> None]]
IdleRoutine == [pc |-> "idle", kind |-> "validator", T |-> "User",
                mine |-> None, cached |-> FALSE]

\* A lookup that never finds the entry.
LookupMiss(kind, T) == None

\* First step of Unmarshal / Validate / Schema for T: look the type up.
Lookup(kind, T) == Load(cache[kind], T)

\* A finished call: the entry it ran on and whether its lookup was a hit.
Run(e, cached) == [e |-> e, cached |-> cached]
\* The calls that have returned, with one more for kind and T.
Ran(kind, T, r) == [returned EXCEPT ![kind][T] = @ \cup {r}]

\* A Simple API call for T begins.  On a hit it runs on the cached entry
\* and returns; on a miss the caller builds its own (reflection, tag parsing
\* against the registry as it is now, generation) and goes on to store it.
Begin(g) ==
    /\ routine[g].pc = "idle"
    /\ \E kind \in CacheKinds, T \in CachedTypes :
          IF Lookup(kind, T) # None
          THEN /\ returned' = Ran(kind, T, Run(Lookup(kind, T), TRUE))
               /\ UNCHANGED <<routine, nextId>>
          ELSE /\ nextId <= MaxBuilds
               /\ routine' = [routine EXCEPT ![g] =
                      [pc |-> "store", kind |-> kind, T |-> T,
                       mine |-> Built(nextId, T, registry),
                       cached |-> cache[kind][T] # None]]
               /\ nextId' = nextId + 1
               /\ UNCHANGED returned
    /\ UNCHANGED <<notCache, registry, cache>>

\* The caller's build replaces whatever is stored and is what it uses.
PublishOverwrite(m, r) ==
    [entry |-> r.mine, got |-> r.mine]

\* The built value is offered to the cache; the caller goes on with the
\* entry the cache holds afterwards.
Publish(m, r) ==
    [entry |-> LoadOrStore(m, r.T, r.mine), got |-> LoadOrStore(m, r.T, r.mine)]

\* The call publishes its build, runs on the entry it obtained and returns.
Store(g) ==
    /\ routine[g].pc = "store"
    /\ cache' = [cache EXCEPT ![routine[g].kind][routine[g].T] =
                     Publish(cache[routine[g].kind], routine[g]).entry]
    /\ returned' = Ran(routine[g].kind, routine[g].T,
                       Run(Publish(cache[routine[g].kind], routine[g]).got,
                           routine[g].cached))
    /\ routine' = [routine EXCEPT ![g] = IdleRoutine]
    /\ UNCHANGED <<notCache, registry, nextId>>

\* The registration leaves the cached validators in place.
RegisteredKeepCache(c) == c

\* The caches after a registration: the validator cache is cleared.
Registered(c) == [c EXCEPT !["validator"] = [T \in CachedTypes |-> None]]

\* RegisterValidation of a name that is not reserved, at startup or
\* between requests: no Simple API call is under way.
RegisterValidation ==
    /\ registry < MaxRegistrations
    /\ \A g \in Goroutines : routine[g].pc = "idle"
    /\ registry' = registry + 1
    /\ cache' = Registered(cache)
    /\ UNCHANGED <<notCache, nextId, routine, returned>>

(***************************************************************************)
(* Validator construction: tag parsing, fail-fast at creation time.        *)
(***************************************************************************)
MaxTokens == 2

\* A tag token: the constraint's name and its parameter ("" for none).
Token(name, param) == [name |-> name, param |-> param]
\* The registered constraint names; those of Numeric take one number.
Builtins == {"required", "email", "min", "max"}
Numeric == {"min", "max"}
IsNumber(p) == p \in {"2", "3"}
NumberOf(p) == IF p = "2" THEN 2 ELSE 3

TokenValid(t) ==
    /\ t.name \in Builtins
    /\ IF t.name \in Numeric THEN IsNumber(t.param) ELSE t.param = ""

ParseToken(t) ==
    Constraint(t.name, IF t.name \in Numeric THEN NumberOf(t.param) ELSE 0, {})

Parsed(ok, cons) == [ok |-> ok, cons |-> cons]
AndThen(c, rest) == Parsed(rest.ok, <<c>> \o rest.cons)

\* A token that cannot be parsed is left out of the constraint list.
RECURSIVE ParseTagSkipping(_)
ParseTagSkipping(tokens) ==
    IF tokens = <<>> THEN Parsed(TRUE, <<>>)
    ELSE IF ~TokenValid(Head(tokens)) THEN ParseTagSkipping(Tail(tokens))
    ELSE AndThen(ParseToken(Head(tokens)), ParseTagSkipping(Tail(tokens)))

\* Tag parsing: the ordered constraint list, or a failure at the first
\* token that names no registered constraint or carries a wrong parameter.
RECURSIVE ParseTag(_)
ParseTag(tokens) ==
    IF tokens = <<>> THEN Parsed(TRUE, <<>>)
    ELSE IF ~TokenValid(Head(tokens)) THEN Parsed(FALSE, <<>>)
    ELSE AndThen(ParseToken(Head(tokens)), ParseTag(Tail(tokens)))

Constructed(decl, hasExtras, opts, status, cons) ==
    [decl |-> decl, hasExtras |-> hasExtras, opts |-> opts,
     status |-> status, cons |-> cons]
NoValidator == Constructed(<<>>, FALSE, DefaultValidatorOptions, "none", <<>>)

\* New[T](opts) for a type with one string field declared by decl, with or
\* without an extra_fields map: the validator, or a panic.
Construct(decl, hasExtras, opts, parsed) ==
    IF ~parsed.ok THEN Constructed(decl, hasExtras, opts, "panic", <<>>)
    ELSE IF opts.ExtraFields = ExtraAllow /\ ~hasExtras
    THEN Constructed(decl, hasExtras, opts, "panic", <<>>)
    ELSE Constructed(decl, hasExtras, opts, "ok", parsed.cons)

New(decl, hasExtras, opts) == Construct(decl, hasExtras, opts, ParseTag(decl))

Tokens ==
    {Token(n, q) : n \in {"required", "min", "foo"}, q \in {"", "2", "x"}}
Declarations == UNION {[1..k -> Tokens] : k \in 0..MaxTokens}
NoBuildCall == [op |-> "none", v |-> JNull, errs |-> <<>>]

DoNew ==
    /\ validator.status = "none"
    /\ \E decl \in Declarations, hasExtras \in BOOLEAN :
         \E extra \in {ExtraIgnore, ExtraForbid, ExtraAllow} :
            validator' = New(decl, hasExtras, ValidatorOptionsWith(TRUE, extra))
    /\ vcall' = NoBuildCall
    /\ UNCHANGED notBuild

\* Unmarshal or Validate on the validator, the field carrying the string v.
DoUse ==
    /\ validator.status = "ok"
    /\ vcall.op = "none"
    /\ \E op \in {"Unmarshal", "Validate"}, v \in Strings(Alphabet, MaxStrLen) :
          vcall' = [op |-> op, v |-> JStr(v),
                    errs |-> CheckAll(validator.cons, "string", JStr(v), <<"field">>)]
    /\ UNCHANGED <<notBuild, validator>>

BuildReturn ==
    /\ vcall.op # "none"
    /\ vcall' = NoBuildCall
    /\ UNCHANGED <<notBuild, validator>>

\* The program lets go of the validator, or ends after the panic.
Discard ==
    /\ validator.status # "none"
    /\ vcall.op = "none"
    /\ validator' = NoValidator
    /\ UNCHANGED <<notBuild, vcall>>

(***************************************************************************)
(* One StreamParser fed by several goroutines.  Feed takes the parser's    *)
(* mutex, appends and parses, and releases the mutex.                      *)
(***************************************************************************)
MaxFeeders == 2
MaxSharedFeeds == 3
Feeders == 1..MaxFeeders
NoHolder == 0
SharedChunks == {<<"{">>, <<"}">>, <<"{", "}">>}
IdleFeeder == [pc |-> "idle", chunk |-> <<>>,
               seen |-> NewStreamParser(StreamType, DefaultValidatorOptions)]

\* A lock that is granted whoever holds it.
TryLockUnguarded(m) == TRUE

\* sync.Mutex.Lock goes through when no goroutine holds the mutex.
TryLock(m) == m = NoHolder

\* A goroutine calls Feed and waits for the mutex.
FeedCall(g) ==
    /\ feeder[g].pc = "idle"
    /\ Len(fed) + Cardinality({h \in Feeders : feeder[h].pc # "idle"})
          < MaxSharedFeeds
    /\ \E chunk \in SharedChunks :
         feeder' = [feeder EXCEPT ![g] = [IdleFeeder EXCEPT !.pc = "waiting",
                                                           !.chunk = chunk]]
    /\ UNCHANGED <<notShared, shared, mu, fed>>

\* The mutex is granted; the call reads the parser's buffer and counters.
FeedLock(g) ==
    /\ feeder[g].pc = "waiting"
    /\ TryLock(mu)
    /\ mu' = g
    /\ feeder' = [feeder EXCEPT ![g].pc = "locked", ![g].seen = shared]
    /\ UNCHANGED <<notShared, shared, fed>>

\* The call stores buffer and state with its chunk appended, releases the
\* mutex and returns.
FeedUnlock(g) ==
    /\ feeder[g].pc = "locked"
    /\ shared' = Feed(feeder[g].seen, feeder[g].chunk).p
    /\ mu' = NoHolder
    /\ fed' = Append(fed, feeder[g].chunk)
    /\ feeder' = [feeder EXCEPT ![g] = IdleFeeder]
    /\ UNCHANGED notShared

(***************************************************************************)
(* scripts/generate-changelog.sh.  The changelog is a sequence of lines;   *)
(* a line is a '---' separator, a '## [version] - date' heading, the       *)
(* '### Changed' heading, a blank line or other text.  A release body may  *)
(* also hold the "## What's Changed" header and the Full Changelog link.   *)
(***************************************************************************)
MaxReleases == 2
MaxEntries == 2
MaxRuns == 2
Line(k, v) == [k |-> k, v |-> v]
Sep == Line("sep", <<>>)
Blank == Line("blank", <<>>)
Text == Line("text", <<>>)
Changed == Line("changed", <<>>)
WhatsChanged == Line("whats", <<>>)
FullChangelog == Line("full", <<>>)
Heading(version) == Line("head", version)
NoFile == [exists |-> FALSE, lines |-> <<>>]
File(lines) == [exists |-> TRUE, lines |-> lines]
Release(tag, body) == [tag |-> tag, body |-> body]

\* version="${tag#v}"
StripV(tag) == IF tag # <<>> /\ Head(tag) = "v" THEN Tail(tag) ELSE tag

\* grep -q "^## \[$version\]": the version is read as a regular expression,
\* in which a dot stands for any character.
VersionMatches(version, v) ==
    /\ Len(version) = Len(v)
    /\ \A i \in 1..Len(v) : version[i] = "." \/ version[i] = v[i]

\* grep finds nothing: every release counts as new.
HasHeadingNever(lines, version) == FALSE

HasHeading(lines, version) ==
    \E i \in DOMAIN lines :
        lines[i].k = "head" /\ VersionMatches(version, lines[i].v)

\* grep -n "^---$" | sed -n '3p' | cut -d: -f1; 0 for the empty answer.
RECURSIVE NthSeparator(_, _, _)
NthSeparator(lines, i, n) ==
    IF i > Len(lines) THEN 0
    ELSE IF lines[i] = Sep
    THEN IF n = 1 THEN i ELSE NthSeparator(lines, i + 1, n - 1)
    ELSE NthSeparator(lines, i + 1, n)
ThirdSeparator(lines) == NthSeparator(lines, 1, 3)

\* The sed and grep -v filters on the release body.
CleanBody(body) ==
    SelectSeq(body, LAMBDA l : l.k \notin {"whats", "full", "blank"})

\* The entry written to the temp file.
Entry(version, body) ==
    <<Blank, Heading(version), Blank, Changed, Blank>>
    \o CleanBody(body) \o <<Blank, Sep>>

\* head -n, cat, tail -n + into the .new file, then mv.
InsertAfter(lines, n, entry) ==
    SubSeq(lines, 1, n) \o entry \o SubSeq(lines, n + 1, Len(lines))

Outcome(lines, added, status) ==
    [lines |-> lines, added |-> added, status |-> status]

\* The while loop over the releases, oldest first.
RECURSIVE Loop(_, _, _)
LoopBody(lines, r, version, rest, added) ==
    IF r.tag = <<>> THEN Loop(lines, rest, added)
    ELSE IF HasHeading(lines, version) THEN Loop(lines, rest, added)
    ELSE IF ThirdSeparator(lines) = 0 THEN Outcome(lines, added, "exit 1")
    ELSE Loop(InsertAfter(lines, ThirdSeparator(lines), Entry(version, r.body)),
              rest, Append(added, version))
Loop(lines, rels, added) ==
    IF rels = <<>> THEN Outcome(lines, added, "exit 0")
    ELSE LoopBody(lines, Head(rels), StripV(Head(rels).tag), Tail(rels), added)

\* tac
RECURSIVE Reversed(_)
Reversed(q) == IF q = <<>> THEN <<>> ELSE Append(Reversed(Tail(q)), Head(q))

\* One run of the script on the file f with the release list rels.
GenerateChangelog(f, rels) ==
    IF ~f.exists THEN Outcome(f.lines, <<>>, "exit 1")
    ELSE IF rels = <<>> THEN Outcome(f.lines, <<>>, "exit 0")
    ELSE Loop(f.lines, Reversed(rels), <<>>)

\* The tags, the release bodies and the changelogs of the model.
Tags == {<<"v", "1", ".", "1">>, <<"1", ".", "1">>, <<"1", "x", "1">>, <<"v", "2">>}
Bodies == {<<WhatsChanged, Text, Blank, FullChangelog>>, <<Text, Sep>>,
           <<Heading(<<"2">>)>>}
ReleaseLists ==
    UNION {{q \in [1..k -> {Release(t, b) : t \in Tags, b \in Bodies}] :
               \A i, j \in 1..k : i # j => q[i].tag # q[j].tag} :
           k \in 0..MaxReleases}
OldEntry(version) == <<Blank, Heading(version), Text, Sep>>
RECURSIVE Entries(_)
Entries(k) ==
    IF k = 0 THEN {<<>>}
    ELSE Entries(k - 1) \cup
         {OldEntry(StripV(t)) \o e : t \in Tags, e \in Entries(k - 1)}
FrontMatter == <<Sep, Text, Sep, Text>>
Changelogs ==
    {NoFile} \cup
    {File(FrontMatter \o h \o e) : h \in {<<>>, <<Sep>>}, e \in Entries(MaxEntries)}

NoRun == [phase |-> "new", count |-> 0, before |-> <<>>, added |-> <<>>,
          status |-> ""]

\* Somebody writes the changelog, and the project has its releases.
Prepare ==
    /\ run.phase = "new"
    /\ \E f \in Changelogs, rels \in ReleaseLists :
         /\ changelog' = f
         /\ releases' = rels
    /\ run' = [run EXCEPT !.phase = "ready"]
    /\ UNCHANGED notChangelog

RunScriptTo(r) ==
    /\ changelog' = [changelog EXCEPT !.lines = r.lines]
    /\ run' = [phase |-> "ran", count |-> run.count + 1,
               before |-> changelog.lines, added |-> r.added,
               status |-> r.status]

\* ./scripts/generate-changelog.sh
RunScript ==
    /\ run.phase # "new"
    /\ run.count < MaxRuns
    /\ RunScriptTo(GenerateChangelog(changelog, releases))
    /\ UNCHANGED <<notChangelog, releases>>

(***************************************************************************)
(* theme/Root.tsx: the component that keeps the class 'dark' of <html> in  *)
(* step with its data-theme attribute.  Two versions are in the            *)
(* repository: one runs its effect once, the other again on every route    *)
(* change and with a delayed second sync.                                  *)
(***************************************************************************)
MaxRecords == 2
Variants == {"Root.tsx", "part_000"}
Themes == {"light", "dark", "none"}
Langs == {"en", "fr"}
Paths == {"/", "/docs"}
AttributeFilter == {"data-theme"}

\* The class is added for the dark theme and never taken away.
SyncDarkClassAddOnly(h) == [h EXCEPT !.dark = h.dark \/ h.theme = "dark"]

\* syncDarkClass
SyncDarkClass(h) == [h EXCEPT !.dark = (h.theme = "dark")]

\* The MutationObserver callback on the records delivered to it.
RECURSIVE Callback(_, _)
Callback(h, mutations) ==
    IF mutations = <<>> THEN h
    ELSE Callback(IF Head(mutations) = "data-theme" THEN SyncDarkClass(h) ELSE h,
                  Tail(mutations))

\* The component without an active effect; dark is the class as the last
\* cleanup left it.
Unmounted(dark) ==
    [phase |-> "unmounted", variant |-> "Root.tsx", pathname |-> "/",
     observing |-> FALSE, records |-> <<>>, timer |-> FALSE, left |-> dark]

\* The cleanup function of the effect: observer.disconnect() drops the
\* pending records, clearTimeout the pending timer.
Cleanup(r, h) == Unmounted(h.dark)

\* The effect: initial sync, the timer of the second version, the observer.
Effect(r) ==
    [r EXCEPT !.phase = "active", !.observing = TRUE, !.records = <<>>,
              !.timer = (r.variant = "part_000")]

\* React renders Root; its effect has not run yet.
Mount ==
    /\ root.phase = "unmounted"
    /\ \E v \in Variants, path \in Paths :
         root' = [root EXCEPT !.phase = "rendered", !.variant = v,
                              !.pathname = path]
    /\ UNCHANGED <<notTheme, html>>

\* The effect runs after the first render.
RunEffect ==
    /\ root.phase = "rendered"
    /\ html' = SyncDarkClass(html)
    /\ root' = Effect(root)
    /\ UNCHANGED notTheme

\* A script sets, removes or rewrites data-theme; an observed change
\* queues a record.
SetTheme ==
    /\ Len(root.records) < MaxRecords
    /\ \E t \in Themes : html' = [html EXCEPT !.theme = t]
    /\ root' = IF root.observing /\ "data-theme" \in AttributeFilter
               THEN [root EXCEPT !.records = Append(@, "data-theme")]
               ELSE root
    /\ UNCHANGED notTheme

\* Another attribute of <html> changes; the filter keeps it from the
\* observer.
SetLang ==
    /\ Len(root.records) < MaxRecords
    /\ \E l \in Langs \ {html.lang} : html' = [html EXCEPT !.lang = l]
    /\ root' = IF root.observing /\ "lang" \in AttributeFilter
               THEN [root EXCEPT !.records = Append(@, "lang")]
               ELSE root
    /\ UNCHANGED notTheme

\* The browser delivers the queued records to the observer's callback.
DeliverRecords ==
    /\ root.observing
    /\ root.records # <<>>
    /\ html' = Callback(html, root.records)
    /\ root' = [root EXCEPT !.records = <<>>]
    /\ UNCHANGED notTheme

\* setTimeout(syncDarkClass, 50) fires.
TimerFires ==
    /\ root.timer
    /\ html' = SyncDarkClass(html)
    /\ root' = [root EXCEPT !.timer = FALSE]
    /\ UNCHANGED notTheme

\* location.pathname changes: the effect's cleanup runs and the effect runs
\* again, in one commit.
Navigate ==
    /\ root.phase = "active"
    /\ root.variant = "part_000"
    /\ \E path \in Paths \ {root.pathname} :
         root' = Effect([Cleanup(root, html) EXCEPT !.variant = root.variant,
                                                     !.pathname = path])
    /\ html' = SyncDarkClass(html)
    /\ UNCHANGED notTheme

\* Root is unmounted: the cleanup runs.
Unmount ==
    /\ root.phase = "active"
    /\ root' = Cleanup(root, html)
    /\ UNCHANGED <<notTheme, html>>

(***************************************************************************)
(* Specifications.                                                         *)
(***************************************************************************)
Init ==
    /\ call = Idle
    /\ parser = NewStreamParser(StreamType, DefaultValidatorOptions)
    /\ ret = NoRet
    /\ fresh = NewStreamParser(StreamType, DefaultValidatorOptions)
    /\ fret = NoRet
    /\ wasReset = FALSE
    /\ dropped = FALSE
    /\ lastChunk = <<>>
    /\ union = [opts |-> NoUnion, validator |-> NoUnion, err |-> "none"]
    /\ ucall = NoUnionCall
    /\ registry = 0
    /\ cache = EmptyCache
    /\ nextId = 1
    /\ routine = [g \in Goroutines |-> IdleRoutine]
    /\ returned = [k \in CacheKinds |-> [T \in CachedTypes |-> {}]]
    /\ validator = NoValidator
    /\ vcall = NoBuildCall
    /\ shared = NewStreamParser(StreamType, DefaultValidatorOptions)
    /\ mu = NoHolder
    /\ feeder = [g \in Feeders |-> IdleFeeder]
    /\ fed = <<>>
    /\ changelog = NoFile
    /\ releases = <<>>
    /\ run = NoRun
    /\ html = [theme |-> "light", lang |-> "en", dark |-> FALSE]
    /\ root = Unmounted(FALSE)

NextEngine == CallUnmarshal \/ CallValidate \/ Return
NextFeature == CallUnmarshalFeature \/ CallValidateFeature \/ Return
NextStream == DoFeed \/ DoCurrentState \/ DoReset
NextUnion == DoNewUnion \/ DoUnionUnmarshal \/ UnionReturn
NextCache ==
    \/ \E g \in Goroutines : Begin(g) \/ Store(g)
    \/ RegisterValidation
NextBuild == DoNew \/ DoUse \/ BuildReturn \/ Discard
NextShared == \E g \in Feeders : FeedCall(g) \/ FeedLock(g) \/ FeedUnlock(g)
NextChangelog == Prepare \/ RunScript
NextTheme ==
    \/ Mount \/ RunEffect \/ SetTheme \/ SetLang \/ DeliverRecords
    \/ TimerFires \/ Navigate \/ Unmount
Next ==
    \/ NextEngine \/ NextFeature \/ NextStream \/ NextUnion \/ NextCache
    \/ NextBuild \/ NextShared \/ NextChangelog \/ NextTheme

\* The validation entry points called one after the other.
Spec == Init /\ [][NextEngine]_vars
\* The entry points called on the types of FeatureTypeNames.
SpecFeature == Init /\ [][NextFeature]_vars
\* One StreamParser driven by one producer.
SpecStream == Init /\ [][NextStream]_vars
\* Union validators created and used one after the other.
SpecUnion == Init /\ [][NextUnion]_vars
\* Goroutines using the Simple API concurrently.
SpecCache == Init /\ [][NextCache]_vars
\* Validators constructed and used one after the other.
SpecBuild == Init /\ [][NextBuild]_vars
\* Goroutines feeding one StreamParser.
SpecShared == Init /\ [][NextShared]_vars
\* The changelog script run again and again on one file.
SpecChangelog == Init /\ [][NextChangelog]_vars
\* The Root component, the page's scripts and the browser's deliveries.
SpecTheme == Init /\ [][NextTheme]_vars

(***************************************************************************)
(* Properties of the validation entry points.                              *)
(***************************************************************************)
Returned(op) == call.op = op
Validated == call.op \in {"Unmarshal", "Validate"}
             /\ call.out.err.class \in {"none", "validation"}
\* The source map of the last call: the decoded document, or the struct.
Source == IF call.op = "Unmarshal" THEN Decode(call.data).v.o ELSE call.obj
Errs == call.out.err.errs
Count(e) == Cardinality({i \in DOMAIN Errs : Errs[i] = e})
CountAt(path) == Cardinality({i \in DOMAIN Errs : Errs[i].path = path})
IsPrefix(p, q) == Len(p) <= Len(q) /\ SubSeq(q, 1, Len(p)) = p

\* Every (path, constraint) whose check fails on a value that is there,
\* across nested structs and elements, each taken on its own.
RECURSIVE Violations(_, _, _, _)
Violations(fields, o, prefix, unmarshal) ==
    UNION {
      LET f == fields[i]
          path == Append(prefix, f.name) IN
      IF unmarshal /\ ~Present(f, o) THEN {}
      ELSE LET v == o[f.key] IN
           {FieldError(path, f.cons[j].kind) :
               j \in {x \in DOMAIN f.cons : Fails(f.cons[x], f.shape, v)}}
           \cup (IF f.shape = "struct"
                 THEN Violations(Fields(f.nested), v.o, path, unmarshal)
                 ELSE {})
           \cup (IF f.shape = "slice"
                 THEN UNION {{FieldError(Append(path, IndexNames[k]), f.elemCons[j].kind) :
                                j \in {x \in DOMAIN f.elemCons :
                                         Fails(f.elemCons[x], "string", v.a[k])}} :
                             k \in DOMAIN v.a}
                 ELSE {})
      : i \in DOMAIN fields }

\* C1: validation never short-circuits.  Whenever Unmarshal or Validate has
\* validated a value, its result holds exactly one error for every
\* constraint that fails on a present field, in the same field, in other
\* fields and in nested structs and elements alike.
C1_AllViolationsCollected ==
    Validated =>
        \A e \in Violations(Fields(call.T), Source, <<>>, call.op = "Unmarshal") :
            Count(e) = 1

\* Two errors on one field, an error on another field and the call is an
\* Unmarshal.
C1_Witness ==
    /\ Returned("Unmarshal")
    /\ \E i, j, k \in DOMAIN Errs :
         /\ i < j
         /\ Errs[i].path = Errs[j].path
         /\ Errs[i].kind # Errs[j].kind
         /\ Errs[k].path # Errs[i].path
         /\ Errs[k].kind \notin {"required", "missing"}

\* C2: a value that satisfies every declared constraint of every field, and
\* whose cross-field hook returns no error, validates cleanly: Validate
\* returns an empty result.
C2_SatisfiedValidatesCleanly ==
    (/\ Returned("Validate")
     /\ Violations(Fields(call.T), call.obj, <<>>, FALSE) = {}
     /\ ~HookFails(call.T, call.obj))
    => call.out.err = NoError

\* Validate answered for a struct that satisfies every constraint and has a
\* zero-valued required field.
C2_Witness ==
    /\ Returned("Validate")
    /\ Violations(Fields(call.T), call.obj, <<>>, FALSE) = {}
    /\ ~HookFails(call.T, call.obj)
    /\ call.T = "Account"
    /\ call.obj[<<"e">>].s = <<>>
    /\ call.out.err = NoError

\* The paths of the required fields without default whose key is absent
\* from the source map (under structs that are present).
RECURSIVE MissingRequired(_, _, _)
MissingRequired(fields, o, prefix) ==
    UNION {
      LET f == fields[i]
          path == Append(prefix, f.name) IN
      IF f.key \notin DOMAIN o
      THEN IF HasRequired(f) /\ ~f.def.has THEN {path} ELSE {}
      ELSE IF f.shape = "struct" /\ o[f.key].t = "obj"
           THEN MissingRequired(Fields(f.nested), o[f.key].o, path)
           ELSE {}
      : i \in DOMAIN fields }

\* C3: when a required field without default is absent from the JSON,
\* Unmarshal returns a non-empty ValidationResult with exactly one error for
\* that field path, of kind required, and nothing else is reported for the
\* field or below it.
C3_MissingRequiredOneError ==
    (Returned("Unmarshal") /\ Validated) =>
        \A p \in MissingRequired(Fields(call.T), Source, <<>>) :
            /\ call.out.err.class = "validation"
            /\ CountAt(p) = 1
            /\ Count(FieldError(p, "required")) = 1
            /\ \A i \in DOMAIN Errs : IsPrefix(p, Errs[i].path) => Errs[i].path = p

\* A required field is absent, under lenient options, next to a field that
\* fails a value constraint.
C3_Witness ==
    /\ Returned("Unmarshal") /\ Validated
    /\ ~call.opts.StrictMissingFields
    /\ MissingRequired(Fields(call.T), Source, <<>>) # {}
    /\ \E i \in DOMAIN Errs : Errs[i].kind = "min"

PresenceKinds == {"required", "missing"}

\* C4: Validate on an existing struct never reports a presence error: no
\* entry of its result is of kind required, whatever the field values.
C4_ValidateNoPresenceError ==
    Returned("Validate") =>
        \A i \in DOMAIN Errs : Errs[i].kind \notin PresenceKinds

\* Validate answered for a struct whose required fields are all zero and
\* reported a value error.
C4_Witness ==
    /\ Returned("Validate")
    /\ call.T = "Order"
    /\ call.obj[<<"d">>].o[<<"y">>].s = <<>>
    /\ \E i \in DOMAIN Errs : Errs[i].kind = "min"

ConstraintKinds == {"required", "missing", "min", "max", "len", "email",
                    "oneof", "Validate"}

\* C5: a structural decode failure is reported by Unmarshal as an error of
\* its own class, never as an entry of the ValidationResult, and no call
\* returns a decode error together with validation errors.
C5_DecodeErrorDistinct ==
    Returned("Unmarshal") =>
        /\ Decode(call.data).status # "complete" =>
              /\ call.out.err.class = "syntax"
              /\ call.out.value = NoValue
        /\ call.out.err.class \in {"syntax", "type"} => Errs = <<>>
        /\ call.out.err.class = "validation" =>
              /\ Errs # <<>>
              /\ \A i \in DOMAIN Errs : Errs[i].kind \in ConstraintKinds
        /\ call.out.err.class = "none" => Errs = <<>>

\* Unmarshal answered a truncated document.
C5_Witness ==
    /\ Returned("Unmarshal")
    /\ Len(call.data) > 2
    /\ Decode(call.data).status = "incomplete"
    /\ call.out.err.class = "syntax"

(***************************************************************************)
(* Properties of the StreamParser.                                         *)
(***************************************************************************)
\* The last call on the parser was a Feed; parser.buffer is what that Feed
\* decoded.
Fed == ret.op = "Feed"
WholeBuffer == Unmarshal(parser.T, parser.opts, parser.buffer)
\* The documents of the bound type that Unmarshal accepts.
ValidDocuments ==
    {d \in StreamDocuments :
        Unmarshal(StreamType, DefaultValidatorOptions, d).err = NoError}

\* C6: whenever the buffer accumulated by a Feed is not yet a complete JSON
\* value (a truncated token, an unterminated structure), that Feed returns
\* no result, no error and a state with IsComplete false.
C6_IncompleteIsNoError ==
    (Fed /\ Decode(parser.buffer).status = "incomplete") =>
        /\ ret.result = NoValue
        /\ ret.err = NoError
        /\ ~ret.state.IsComplete
        /\ ~CurrentState(parser).IsComplete

\* A second Feed left the buffer in the middle of a string.
C6_Witness ==
    /\ Fed
    /\ parser.state.ParseAttempts = 2
    /\ lastChunk # <<>>
    /\ Len(parser.buffer) > Len(lastChunk)
    /\ Decode(parser.buffer).status = "incomplete"
    /\ parser.buffer[Len(parser.buffer)] = "a"
    /\ ret.err = NoError

\* C7: when the buffer decodes but the value violates constraints, Feed
\* returns the validation errors with IsComplete true; no Feed returns
\* validation errors with IsComplete false.
C7_InvalidIsComplete ==
    Fed =>
        /\ ret.err.class = "validation" => ret.state.IsComplete
        /\ (/\ Decode(parser.buffer).status = "complete"
            /\ WholeBuffer.err.class = "validation")
           => /\ ret.err = WholeBuffer.err
              /\ ret.err.errs # <<>>
              /\ ret.result = NoValue
              /\ ret.state.IsComplete

\* A document completed by its second chunk fails a value constraint.
C7_Witness ==
    /\ Fed
    /\ parser.state.ParseAttempts = 2
    /\ lastChunk # <<>>
    /\ Len(parser.buffer) > Len(lastChunk)
    /\ ret.state.IsComplete
    /\ \E i \in DOMAIN ret.err.errs : ret.err.errs[i].kind = "min"

\* C8: a valid document cut anywhere into two non-empty chunks and fed to a
\* new parser: the first Feed answers incomplete without error, the second
\* complete without error and with the result of Unmarshal on the whole.
C8_SplitDocumentCompletes ==
    /\ (/\ Fed
        /\ parser.state.ParseAttempts = 1
        /\ parser.buffer # <<>>
        /\ \E d \in ValidDocuments :
              Len(parser.buffer) < Len(d) /\ IsPrefix(parser.buffer, d))
       => /\ ~ret.state.IsComplete
          /\ ret.err = NoError
          /\ ret.result = NoValue
    /\ (/\ Fed
        /\ parser.state.ParseAttempts = 2
        /\ lastChunk # <<>>
        /\ Len(lastChunk) < Len(parser.buffer)
        /\ parser.buffer \in ValidDocuments)
       => /\ ret.state.IsComplete
          /\ ret.err = NoError
          /\ ret.result # NoValue
          /\ ret.result = WholeBuffer.value

\* The second of two non-empty chunks completed a valid document, cut
\* inside its string value.
C8_Witness ==
    /\ Fed
    /\ parser.state.ParseAttempts = 2
    /\ lastChunk # <<>>
    /\ Len(lastChunk) < Len(parser.buffer)
    /\ parser.buffer \in ValidDocuments
    /\ lastChunk[1] = "a"
    /\ ret.state.IsComplete
    /\ ret.result # NoValue

\* C9: once Reset, the parser is indistinguishable from a newly created one
\* with the same binding: right after the Reset its buffer is empty and its
\* counters zero, and every later Feed returns what the same Feed returns on
\* the new parser and leaves the same buffer and state, whatever had been
\* fed before.
C9_ResetIsFresh ==
    wasReset =>
        /\ parser = fresh
        /\ Fed => ret = fret
        /\ ret.op = "none" =>
              /\ parser.buffer = <<>>
              /\ parser.state.ParseAttempts = 0
              /\ parser.state.BytesReceived = 0

\* Bytes were discarded by the Reset and two Feeds have since completed a
\* document.
C9_Witness ==
    /\ wasReset /\ dropped
    /\ Fed
    /\ parser.state.ParseAttempts = 2
    /\ Len(lastChunk) < Len(parser.buffer)
    /\ ret.state.IsComplete
    /\ ret = fret

\* C10: between two Resets the buffer only grows: a step that is not a Reset
\* keeps every buffered byte, and a Feed, also one that follows a completed
\* document, decodes the old bytes followed by the new ones.
C10_BufferAppendOnly ==
    [][/\ ret'.op # "none" => IsPrefix(parser.buffer, parser'.buffer)
       /\ ret'.op = "CurrentState" => parser' = parser
       /\ (/\ ret'.op = "Feed"
           /\ parser'.state.ParseAttempts = parser.state.ParseAttempts + 1)
          => LET whole == parser.buffer \o lastChunk' IN
             /\ parser'.buffer = whole
             /\ ret'.state.IsComplete = (Decode(whole).status = "complete")
             /\ ret'.result = (IF Decode(whole).status = "complete"
                               THEN Unmarshal(parser.T, parser.opts, whole).value
                               ELSE NoValue)]_vars

\* A Feed followed a completed, valid document without a Reset and the
\* buffer holds both.
C10_Witness ==
    /\ Fed
    /\ lastChunk # <<>>
    /\ Len(lastChunk) < Len(parser.buffer)
    /\ SubSeq(parser.buffer, 1, Len(parser.buffer) - Len(lastChunk)) \in ValidDocuments
    /\ ~ret.state.IsComplete
    /\ ret.result = NoValue

(***************************************************************************)
(* Properties of the union validator.                                      *)
(***************************************************************************)
UnionAnswered == ucall.op = "Unmarshal" /\ Decode(ucall.data).status = "complete"
UnionSource == Decode(ucall.data).v.o
RegisteredValues == {union.validator.Variants[i].value : i \in DOMAIN union.validator.Variants}

\* C11: a union Unmarshal returns a variant value only when the
\* discriminator key is present and equals a registered value exactly, and
\* then it is that variant's; an absent key gives a missing-discriminator
\* error and a value that is not registered (a prefix or an extension of a
\* registered one included) an unknown-discriminator error naming it; in
\* both failures no variant is selected and no field error is reported.
C11_ExactDiscriminatorMatch ==
    UnionAnswered =>
        /\ ucall.out.variant # "" =>
              /\ DiscriminatorField \in DOMAIN UnionSource
              /\ \E i \in DOMAIN union.validator.Variants :
                    /\ union.validator.Variants[i].value = UnionSource[DiscriminatorField].s
                    /\ union.validator.Variants[i].T = ucall.out.variant
        /\ ucall.out.value # NoValue => ucall.out.variant # ""
        /\ DiscriminatorField \notin DOMAIN UnionSource =>
              /\ ucall.out.err = DecodeError("missing discriminator")
              /\ ucall.out.value = NoValue
              /\ ucall.out.variant = ""
        /\ (/\ DiscriminatorField \in DOMAIN UnionSource
            /\ UnionSource[DiscriminatorField].s \notin RegisteredValues) =>
              /\ ucall.out.err = DecodeError("unknown discriminator")
              /\ ucall.out.received = UnionSource[DiscriminatorField].s
              /\ ucall.out.value = NoValue
              /\ ucall.out.variant = ""

\* The received value is a proper prefix of the only registered value, the
\* document would satisfy that variant, and the answer is unknown
\* discriminator.
C11_Witness ==
    /\ UnionAnswered
    /\ RegisteredValues = {<<"a", "b">>}
    /\ DiscriminatorField \in DOMAIN UnionSource
    /\ UnionSource[DiscriminatorField].s = <<"a">>
    /\ UnmarshalDecoded(union.validator.Variants[1].T, DefaultValidatorOptions,
                        Decode(ucall.data)).err = NoError
    /\ ucall.out.err.class = "unknown discriminator"
    /\ ucall.out.received = <<"a">>

\* C12: NewUnion with two variants of the same discriminator value fails
\* and returns no validator; every validator it returns has pairwise
\* distinct discriminator values.
C12_DuplicateVariantsRejected ==
    /\ HasDuplicates(union.opts.Variants) =>
          /\ union.validator = NoUnion
          /\ union.err # "none"
    /\ union.validator # NoUnion =>
          /\ union.err = "none"
          /\ \A i, j \in DOMAIN union.validator.Variants :
                i # j => union.validator.Variants[i].value
                         # union.validator.Variants[j].value
    /\ ucall.op = "Unmarshal" => ~HasDuplicates(union.opts.Variants)

\* NewUnion was given the same value for two different types and failed.
C12_Witness ==
    /\ Len(union.opts.Variants) = 2
    /\ union.opts.Variants[1].value = union.opts.Variants[2].value
    /\ union.opts.Variants[1].T # union.opts.Variants[2].T
    /\ union.validator = NoUnion
    /\ union.err = "duplicate variants"

(***************************************************************************)
(* Properties of the caches and the registry.                              *)
(***************************************************************************)
\* C13: however often Schema is called for a type, every call returns the
\* same document, the one stored in the cache; a call that finds the type
\* cached generates nothing.
C13_SchemaCachedOnce ==
    /\ \A T \in CachedTypes :
          /\ \A r \in returned["schema"][T] : r.e = cache["schema"][T]
          /\ Cardinality({r.e : r \in returned["schema"][T]}) <= 1
    /\ \A g \in Goroutines :
          (routine[g].kind = "schema" /\ routine[g].pc = "store") =>
              ~routine[g].cached

\* A Schema call generated the schema of a type and a later call found it
\* cached and returned the same reference.
C13_Witness ==
    \E T \in CachedTypes :
        /\ cache["schema"][T] # None
        /\ returned["schema"][T] = {Run(cache["schema"][T], FALSE),
                                    Run(cache["schema"][T], TRUE)}

SizeViolated(cons, n) ==
    {j \in DOMAIN cons : \/ cons[j].kind = "min" /\ n < cons[j].n
                         \/ cons[j].kind = "max" /\ n > cons[j].n
                         \/ cons[j].kind = "len" /\ n # cons[j].n}
\* The constraints after dive that the element e violates.
ElementViolated(elemCons, e) ==
    {j \in DOMAIN elemCons : Fails(elemCons[j], "string", e)}
\* The slice fields of the last call's type that were validated.
DivedFields ==
    {i \in DOMAIN Fields(call.T) :
        /\ Fields(call.T)[i].shape = "slice"
        /\ call.op = "Unmarshal" => Present(Fields(call.T)[i], Source)}

\* C16: for a slice field with size constraints, dive and element
\* constraints, the size constraints count the elements and the constraints
\* after dive are applied to every element on its own, under path [i]: the
\* errors of the field are exactly one per violated size constraint plus one
\* per constraint an element violates, wherever the element lies.
C16_SizeThenDive ==
    Validated =>
        \A i \in DivedFields :
            LET f == Fields(call.T)[i]
                a == Source[f.key].a IN
            /\ CountAt(<<f.name>>) = Cardinality(SizeViolated(f.cons, Len(a)))
            /\ \A j \in SizeViolated(f.cons, Len(a)) :
                   Count(FieldError(<<f.name>>, f.cons[j].kind)) = 1
            /\ \A k \in DOMAIN a :
                   /\ CountAt(<<f.name, IndexNames[k]>>) =
                          Cardinality(ElementViolated(f.elemCons, a[k]))
                   /\ \A j \in ElementViolated(f.elemCons, a[k]) :
                          Count(FieldError(<<f.name, IndexNames[k]>>,
                                           f.elemCons[j].kind)) = 1
            /\ \A x \in DOMAIN Errs :
                   (IsPrefix(<<f.name>>, Errs[x].path) /\ Errs[x].path # <<f.name>>)
                       => \E k \in DOMAIN a :
                              Errs[x].path = <<f.name, IndexNames[k]>>

\* Tags min=1,max=2,dive,min=2 on ["a","aa","aa"]: exactly two errors, the
\* size of the collection and index 0.
C16_Witness ==
    /\ Returned("Unmarshal") /\ Validated
    /\ call.T = "Order"
    /\ Present(OrderFields[2], Source)
    /\ Source[<<"t">>].a = <<JStr(<<"a">>), JStr(<<"a", "a">>), JStr(<<"a", "a">>)>>
    /\ {Errs[x] : x \in {y \in DOMAIN Errs : IsPrefix(<<"tags">>, Errs[y].path)}}
           = {FieldError(<<"tags">>, "max"), FieldError(<<"tags", "[0]">>, "min")}
    /\ CountAt(<<"tags">>) = 1
    /\ CountAt(<<"tags", "[0]">>) = 1

\* The pairs of positions whose elements carry the same value under key.
SameProjection(a, key) ==
    {p \in (DOMAIN a) \X (DOMAIN a) : p[1] < p[2] /\ a[p[1]].o[key] = a[p[2]].o[key]}
UniqueErrors == {x \in DOMAIN Errs : Errs[x].kind = "unique"}

\* C17: unique=FieldName on a slice of structs compares only the named
\* field of the elements.  When the projections are pairwise distinct no
\* uniqueness error is reported, whatever the other fields hold; when
\* exactly one pair of elements shares a projection, exactly one uniqueness
\* error is reported, at the index of the later element of the pair.
C17_UniqueByField ==
    (/\ Validated
     /\ call.T = "UserList"
     /\ call.op = "Unmarshal" => Present(UserListFields[1], Source)) =>
        LET a == Source[<<"s">>].a IN
        /\ SameProjection(a, <<"u">>) = {} => UniqueErrors = {}
        /\ \A p \in SameProjection(a, <<"u">>) :
               SameProjection(a, <<"u">>) = {p} =>
                   /\ Cardinality(UniqueErrors) = 1
                   /\ \A x \in UniqueErrors :
                          Errs[x].path = <<"users", IndexNames[p[2]]>>

\* Usernames x, y, x with three different elements: one uniqueness error, at
\* index 2.
C17_Witness ==
    /\ Returned("Unmarshal") /\ Validated
    /\ call.T = "UserList"
    /\ Present(UserListFields[1], Source)
    /\ Len(Source[<<"s">>].a) = 3
    /\ SameProjection(Source[<<"s">>].a, <<"u">>) = {<<1, 3>>}
    /\ Source[<<"s">>].a[1] # Source[<<"s">>].a[3]
    /\ Cardinality(UniqueErrors) = 1
    /\ \E x \in UniqueErrors : Errs[x].path = <<"users", "[2]">>

(***************************************************************************)
(* Properties of defaults and options.                                     *)
(***************************************************************************)
Succeeded == call.out.err = NoError
KeyAbsent(f) == f.key \notin DOMAIN Source
\* The key is there with a value, an empty or zero one included.
KeySupplied(f) == f.key \in DOMAIN Source /\ Source[f.key] # JNull

RECURSIVE OptionalNotGiven(_, _, _, _)
OptionalNotGiven(fields, o, prefix, absentOnly) ==
    UNION {
      LET f == fields[i]
          path == Append(prefix, f.name) IN
      IF ~Present(f, o)
      THEN IF /\ ~HasRequired(f)
              /\ ~f.def.has
              /\ absentOnly => f.key \notin DOMAIN o
           THEN {path} ELSE {}
      ELSE IF f.shape = "struct"
           THEN OptionalNotGiven(Fields(f.nested), o[f.key].o, path, absentOnly)
           ELSE {}
      : i \in DOMAIN fields }

ErrorsAt(errs, p) == Cardinality({x \in DOMAIN errs : errs[x].path = p})
Outside(errs, paths) == SelectSeq(errs, LAMBDA e : e.path \notin paths)
\* The last call's input under either setting of the option.
UnderStrict == Unmarshal(call.T, ValidatorOptions(TRUE), call.data)
UnderLenient == Unmarshal(call.T, ValidatorOptions(FALSE), call.data)

Undeclared == DOMAIN Source \ {Fields(call.T)[i].key : i \in DOMAIN Fields(call.T)}
UnknownReported == {x \in DOMAIN Errs : Errs[x].kind = "unknown"}
\* The last call's input under the default policy.
UnderIgnore ==
    Unmarshal(call.T,
              ValidatorOptionsWith(call.opts.StrictMissingFields, ExtraIgnore),
              call.data)

Unregistered(t) == t.name \notin {"required", "email", "min", "max"}
WrongArity(t) == (t.name \in {"min", "max"}) # (t.param # "")
WrongType(t) == t.name \in {"min", "max"} /\ t.param \notin {"", "2", "3"}
InvalidTokens ==
    {i \in DOMAIN validator.decl :
        \/ Unregistered(validator.decl[i])
        \/ WrongArity(validator.decl[i])
        \/ WrongType(validator.decl[i])}
CaptureWithoutMap ==
    validator.opts.ExtraFields = ExtraAllow /\ ~validator.hasExtras

\* C21: an invalid declaration (a token naming an unregistered constraint,
\* a parameter of the wrong arity or type, ExtraAllow on a type without
\* extra_fields map) makes New fail; a validator that exists holds one
\* constraint per declared token, and no call is answered by a validator
\* that left a declared rule out.
C21_InvalidDeclarationFailsConstruction ==
    /\ (InvalidTokens # {} \/ CaptureWithoutMap) => validator.status # "ok"
    /\ validator.status = "ok" =>
          /\ Len(validator.cons) = Len(validator.decl)
          /\ \A i \in DOMAIN validator.decl :
                validator.cons[i].kind = validator.decl[i].name
    /\ vcall.op # "none" =>
          /\ validator.status = "ok"
          /\ InvalidTokens = {}
          /\ Len(vcall.errs) =
                Cardinality({i \in DOMAIN validator.decl :
                                Fails(validator.cons[i], "string", vcall.v)})

\* A declaration with a valid token and a non-numeric min parameter: New
\* panicked and no call was answered.
C21_Witness ==
    /\ validator.status = "panic"
    /\ Len(validator.decl) = 2
    /\ InvalidTokens = {2}
    /\ WrongType(validator.decl[2])
    /\ ~CaptureWithoutMap
    /\ vcall.op = "none"

(***************************************************************************)
(* C22: the cross-field hook.                                              *)
(***************************************************************************)
\* The value the hook of the last call was handed: the populated struct of
\* an Unmarshal, the struct of a Validate.
HookValue ==
    IF call.op = "Unmarshal" THEN Populate(Fields(call.T), Source) ELSE call.obj
HookError == FieldError(<<>>, "Validate")
FieldErrorsOfCall ==
    EvalFields(Fields(call.T), Source, <<>>, call.op = "Unmarshal", call.opts)

RECURSIVE Concat(_)
Concat(chunks) ==
    IF chunks = <<>> THEN <<>> ELSE Head(chunks) \o Concat(Tail(chunks))
RECURSIVE SumLen(_)
SumLen(chunks) ==
    IF chunks = <<>> THEN 0 ELSE Len(Head(chunks)) + SumLen(Tail(chunks))
Orders(n) == {f \in [1..n -> 1..n] : \A i, j \in 1..n : i # j => f[i] # f[j]}

WithoutNulls == [k \in {x \in DOMAIN Source : Source[x].t # "null"} |-> Source[k]]
RequiredNoDefault(T) ==
    {i \in DOMAIN Fields(T) : HasRequired(Fields(T)[i]) /\ ~Fields(T)[i].def.has}
NullRequired(T) ==
    {i \in RequiredNoDefault(T) :
        /\ Fields(T)[i].key \in DOMAIN Source
        /\ Source[Fields(T)[i].key].t = "null"}

\* C24: an Unmarshal whose document holds an explicit null answers as it
\* does for the document without that key; so a required field (without
\* default) whose value is null fails with one required error at its path,
\* whether the field is a string, a slice of structs or a pointer.
C24_NullFailsRequired ==
    (Returned("Unmarshal") /\ Decode(call.data).status = "complete") =>
        /\ call.out = Unmarshal(call.T, call.opts, Encode(JObj(WithoutNulls)))
        /\ \A i \in NullRequired(call.T) :
             /\ call.out.err.class \in {"validation", "type"}
             /\ call.out.err.class = "validation" =>
                  Count(FieldError(<<Fields(call.T)[i].name>>, "required")) = 1

\* An Unmarshal of an Endpoint with "timeout": null and a host: the pointer
\* field is reported as required.
C24_Witness ==
    /\ Returned("Unmarshal")
    /\ call.T = "Endpoint"
    /\ Decode(call.data).status = "complete"
    /\ <<"t">> \in DOMAIN Source /\ Source[<<"t">>].t = "null"
    /\ <<"h">> \in DOMAIN Source /\ Source[<<"h">>].t = "str"
    /\ call.out.err.class = "validation"
    /\ Errs = <<FieldError(<<"timeout">>, "required")>>

(***************************************************************************)
(* C25: generate-changelog.sh only inserts.                                *)
(***************************************************************************)
LinesOf(q) == {q[i] : i \in DOMAIN q}
Grown == Len(changelog.lines) - Len(run.before)
InsertedBlock ==
    SubSeq(changelog.lines, ThirdSeparator(run.before) + 1,
           ThirdSeparator(run.before) + Grown)

\* C25: after a run of the script the file is the file before the run with
\* one block of lines inserted directly after its third '---' line (or
\* nothing inserted), so every earlier line is kept in its order; every
\* version the run added belongs to a release, had no '## [version]'
\* heading in the file before and has one in the block; and a second run
\* over the same release list adds nothing and leaves the file as it is.
C25_ChangelogOnlyInserts ==
    run.phase = "ran" =>
        /\ Grown >= 0
        /\ Grown > 0 => ThirdSeparator(run.before) > 0
        /\ SubSeq(changelog.lines, 1, ThirdSeparator(run.before))
             = SubSeq(run.before, 1, ThirdSeparator(run.before))
        /\ SubSeq(changelog.lines, ThirdSeparator(run.before) + Grown + 1,
                  Len(changelog.lines))
             = SubSeq(run.before, ThirdSeparator(run.before) + 1, Len(run.before))
        /\ (Grown > 0) = (run.added # <<>>)
        /\ \A i \in DOMAIN run.added :
             /\ \E j \in DOMAIN releases : StripV(releases[j].tag) = run.added[i]
             /\ Heading(run.added[i]) \notin LinesOf(run.before)
             /\ Heading(run.added[i]) \in LinesOf(InsertedBlock)
             /\ \A j \in DOMAIN run.added : run.added[j] = run.added[i] => j = i
        /\ run.count >= 2 =>
             /\ run.added = <<>>
             /\ changelog.lines = run.before

\* The second run over two releases of which the first run added at least
\* one ('### Changed' is written by the script only): it adds nothing.
C25_Witness ==
    /\ run.count = 2
    /\ Len(releases) = 2
    /\ Changed \in LinesOf(changelog.lines)
    /\ run.added = <<>>
    /\ run.status = "exit 0"

(***************************************************************************)
(* C26: the class 'dark' follows data-theme.                               *)
(***************************************************************************)
\* C26: while Root's effect is active and no record waits for the
\* observer's callback, <html> has the class 'dark' exactly when its
\* data-theme is 'dark', from the effect's first run on and whatever
\* changes were made; once the cleanup has run the class stays as the
\* cleanup left it.
C26_DarkClassFollowsTheme ==
    /\ (root.phase = "active" /\ root.records = <<>>) =>
           (html.dark <=> html.theme = "dark")
    /\ root.phase = "unmounted" => html.dark = root.left

\* The theme was changed away from dark after the effect had set the class
\* and the callback has taken the class off again.
C26_Witness ==
    /\ root.phase = "active"
    /\ root.records = <<>>
    /\ ~root.timer
    /\ root.variant = "Root.tsx"
    /\ html.theme = "none"
    /\ ~html.dark
    /\ html.lang = "fr"

(***************************************************************************)
(* C27: presence is the key, not the value.                                *)
(***************************************************************************)
\* The top-level fields of the last call's type whose key is in the source
\* with the zero value of the field's type.
ZeroSupplied ==
    {i \in DOMAIN Fields(call.T) :
        /\ Fields(call.T)[i].key \in DOMAIN Source
        /\ Source[Fields(call.T)[i].key].t = JsonType(Fields(call.T)[i].shape)
        /\ IsZero(Fields(call.T)[i].shape, Source[Fields(call.T)[i].key])}
\* The kinds of the errors reported at exactly this path, in their order.
KindsAt(path) ==
    LET at == SelectSeq(Errs, LAMBDA e : e.path = path) IN
    [i \in DOMAIN at |-> at[i].kind]
\* The kinds of the constraints other than required that the value fails,
\* in declaration order.
FailingKinds(f, v) ==
    LET failing == SelectSeq(f.cons, LAMBDA c : c.kind # "required"
                                                /\ FailsValue(c, f.shape, v)) IN
    [i \in DOMAIN failing |-> failing[i].kind]

DiscriminatorMatched ==
    /\ UnionAnswered
    /\ DiscriminatorField \in DOMAIN UnionSource
    /\ UnionSource[DiscriminatorField].s \in RegisteredValues
MatchedType ==
    union.validator.Variants[
        CHOOSE i \in DOMAIN union.validator.Variants :
            union.validator.Variants[i].value = UnionSource[DiscriminatorField].s].T
KeysOf(T) == {Fields(T)[i].key : i \in DOMAIN Fields(T)}

\* C28: when the discriminator equals a registered value, the union
\* Unmarshal answers what the Unmarshal of that variant's type answers for
\* the document and nothing else: the value is of the matched type, and
\* every error names a field of the matched type and one of that field's
\* constraints; no constraint of another variant adds an error.
C28_OnlyMatchedVariantValidated ==
    DiscriminatorMatched =>
        /\ ucall.out.variant = MatchedType
        /\ Ret(ucall.out.value, ucall.out.err)
             = Unmarshal(MatchedType, DefaultValidatorOptions, ucall.data)
        /\ ucall.out.value # NoValue =>
             DOMAIN ucall.out.value.o = KeysOf(MatchedType)
        /\ \A k \in DOMAIN ucall.out.err.errs :
             \E i \in DOMAIN Fields(MatchedType) :
                /\ ucall.out.err.errs[k].path = <<Fields(MatchedType)[i].name>>
                /\ \E j \in DOMAIN Fields(MatchedType)[i].cons :
                      Fields(MatchedType)[i].cons[j].kind = ucall.out.err.errs[k].kind

\* Two variants of different types are registered; the document matches
\* the first and satisfies it, and would fail the second variant's
\* required field: the answer is the first variant's value without error.
C28_Witness ==
    /\ DiscriminatorMatched
    /\ Len(union.validator.Variants) = 2
    /\ union.validator.Variants[1].T # union.validator.Variants[2].T
    /\ MatchedType = union.validator.Variants[1].T
    /\ Unmarshal(union.validator.Variants[2].T, DefaultValidatorOptions,
                 ucall.data).err.class = "validation"
    /\ ucall.out.err = NoError
    /\ ucall.out.value # NoValue

(***************************************************************************)
(* C29: CurrentState only reads.                                           *)
(***************************************************************************)
\* C29: a CurrentState call returns the state that the most recent Feed
\* returned, or the initial state when nothing was fed since the parser was
\* created or Reset; it leaves buffer, counters and IsComplete as they
\* were, and a CurrentState call that follows another returns the same
\* state.
C29_CurrentStateReadsOnly ==
    [][ret'.op = "CurrentState" =>
          /\ ret'.state = fret.state
          /\ ret.op = "Feed" => ret'.state = ret.state
          /\ ret.op = "none" => ret'.state = StreamState(0, 0, FALSE, "none")
          /\ ret.op = "CurrentState" => ret'.state = ret.state
          /\ parser'.buffer = parser.buffer
          /\ parser'.state = parser.state]_vars

\* CurrentState after two Feeds that left an incomplete document: the
\* state reports the bytes, the attempts and the last parse error.
C29_Witness ==
    /\ ret.op = "CurrentState"
    /\ ret.state.ParseAttempts = 2
    /\ ret.state.BytesReceived = Len(parser.buffer)
    /\ ret.state.BytesReceived > 0
    /\ ~ret.state.IsComplete
    /\ ret.state.LastError = "syntax"
    /\ ret.state = fret.state

(***************************************************************************)
(* C30: the counters of the StreamState.                                   *)
(***************************************************************************)
\* BytesReceived is the length of the buffer, and IsComplete says that the
\* whole buffer is one complete JSON value.
CountersMatchBuffer(p) ==
    /\ p.state.BytesReceived = Len(p.buffer)
    /\ p.state.IsComplete = (Decode(p.buffer).status = "complete")

\* C30: with one producer, BytesReceived is the length of the buffer and
\* IsComplete holds exactly when the whole buffer decoded as one JSON value
\* at the last Feed: this holds of the new parser and after a Reset, where
\* both counters are zero, after every Feed, which adds its chunk's length
\* to the buffer and to BytesReceived and one to ParseAttempts, and after
\* CurrentState, which changes nothing; so the counters are the sum of the
\* chunk lengths and the number of Feeds since the creation or the last
\* Reset, and only a Reset lowers them.
C30_CountersTrackFeeds ==
    [][/\ ret.op = "none" =>
            /\ parser.state.BytesReceived = 0
            /\ parser.state.ParseAttempts = 0
            /\ CountersMatchBuffer(parser)
       /\ ret'.op = "Feed" =>
            /\ parser'.state.BytesReceived
                 = parser.state.BytesReceived + Len(lastChunk')
            /\ Len(parser'.buffer) = Len(parser.buffer) + Len(lastChunk')
            /\ parser'.state.ParseAttempts = parser.state.ParseAttempts + 1
            /\ ret'.state = parser'.state
            /\ CountersMatchBuffer(parser')
       /\ ret'.op = "CurrentState" => parser' = parser
       /\ ret'.op = "none" =>
            /\ parser'.state.BytesReceived = 0
            /\ parser'.state.ParseAttempts = 0
            /\ parser'.buffer = <<>>
            /\ ~parser'.state.IsComplete
       /\ ret'.op # "none" =>
            /\ parser'.state.BytesReceived >= parser.state.BytesReceived
            /\ parser'.state.ParseAttempts >= parser.state.ParseAttempts]_vars

\* Three Feeds since a Reset that dropped bytes, one of them of an empty
\* chunk, with a failed attempt before the document is complete.
C30_Witness ==
    /\ wasReset /\ dropped
    /\ Fed
    /\ parser.state.ParseAttempts = 3
    /\ parser.state.BytesReceived = Len(parser.buffer)
    /\ parser.state.BytesReceived > Len(lastChunk)
    /\ lastChunk # <<>>
    /\ parser.state.IsComplete

====
